---- MODULE Spec2Model ----
(***************************************************************************)
(* shrimp: resumable multipart upload of one local file to an S3 store.    *)
(* The model follows run() of the main package (src/unnamed/part_005,      *)
(* lines 63-985): pre-flight, resume discovery, the part loop with its     *)
(* upload goroutine, stdin goroutine and SIGINT handler goroutine, and the *)
(* completion.  The S3 store is the environment; its state outlives the    *)
(* process, so one behaviour holds several runs of the program against the *)
(* same store.                                                             *)
(*                                                                         *)
(* Sizes are in abstract units (one unit stands for a fixed number of      *)
(* bytes); rates are in bytes per second as in the source.                 *)
(***************************************************************************)
EXTENDS Integers, Sequences, FiniteSets, TLC

\* ------------------------------------------------------------------ bounds
\* Number of invocations of the program in one behaviour.
MaxRuns == 3
\* Number of consecutive failed UploadPart calls for one part number.
MaxFails == 2
\* Highest rate at which the user still types a key that raises the rate
\* (specification KeySpec).
MaxRate == 2000

\* ---------------------------------------------------------------- inputs
\* (fileSize, partSize) pairs: a short last part and an exact part boundary.
Configs == { <<3, 2>>, <<4, 2>> }
\* --bwlimit values (0 = unlimited).
InitialRates == { 5000 }
\* Keys the user types in the specification Spec (the handler HandleKey
\* covers every key of the source).
Keys == { " " }
\* Seconds slept after a failed part (time.Sleep(10 * time.Second)).
ErrorWaitSeconds == 10
\* 5 MiB, the least size of a part that is not the last, in the units of
\* Configs (one unit is 5 MiB).
MinPartSize == 1

VARIABLES
  \* configuration, the same for every invocation ("just re-run the command")
  fileSize, partSize, initialRate,
  \* the store: object present at the key, a second in-progress upload with
  \* the same key, id of the in-progress upload (0: none), its parts, and
  \* the next upload id the store hands out
  srvObject, srvDup, srvUpload, srvParts, srvNextId,
  \* the process: coordinator position and flags of this invocation
  pc, mode, force,
  \* UploadState of run()
  uploadId, parts, partNumber, offset,
  \* control variables of run() (lines 655-661) and the live reader
  interrupted, paused, waitingToUnpause, waitingAfterError,
  rate, oldRate, reader,
  \* the rate in effect just before the current pause was entered (NoRate:
  \* not paused, or the rate was set by another key during the pause)
  pauseRate,
  \* channels and the SIGINT handler goroutine
  stdinInput, signalChannel, hpc, sigTrap,
  \* the upload goroutine: its position, its result (uploadPart: the ETag of
  \* the response, <<>> when nil), and the request it carries
  up, uploadPart, uploadErr, lastCall,
  \* terminal: raw mode on, saved state non-nil, deferred restore registered
  termRaw, oldTerminalState, deferRestore,
  \* observations: invocations so far; UploadPart dispatches, failures and
  \* seconds slept for the current part number; CompleteMultipartUpload
  \* calls of this invocation with their argument and outcome, standard
  \* output written, API operations issued, exit status and what ended it
  runs, attempts, fails, slept,
  completeCalls, completeArg, completeOk, stdout, apiCalls,
  \* warnings about the listed parts written on standard error
  warned,
  \* HTTP status of the HeadObject response of this invocation (0: no call)
  headStatus,
  exitCode, exitWhy,
  \* the schedule file: its block lines, the result of readSchedule, the
  \* wall clock in minutes since a Sunday 00:00, and the last call of a
  \* schedule function with its result
  schedLines, schedule, now, called,
  \* the scheduler goroutine of run() (lines 697-731): its position and the
  \* block it works on; the rate the coordinator has read for the reader
  \* it is constructing (line 751)
  spc, sblock, argRate,
  \* the MFA prompt (lines 359-418, 625-653): the flag, the digits typed
  \* so far, the pipe to the token provider, the provider's position, the
  \* code it read, and the character the stdin goroutine holds
  promptingForMfa, mfaCode, mfaPipe, tpc, tcode, held,
  \* the rate-limited reader of one UploadPart call (design section 4.1):
  \* its limit, the time since the current pass started (in ticks), the
  \* bytes delivered in the pass, the position in the source, whether the
  \* unthrottled first pass is on, whether the source has been read to its
  \* end, and whether the limit is the one the pass started with
  flowRate, flowElapsed, flowTransferred, flowPos, flowBypass, flowScanned,
  flowFixed,
  \* the value of the --part-size argument, a sequence of characters
  \* (empty: the argument is not given)
  partSizeRaw

cfgVars  == <<fileSize, partSize, initialRate>>
srvVars  == <<srvObject, srvDup, srvUpload, srvParts, srvNextId>>
flagVars == <<mode, force>>
stVars   == <<uploadId, parts, partNumber, offset>>
ctlVars  == <<interrupted, paused, waitingToUnpause, waitingAfterError,
              rate, oldRate, reader, pauseRate>>
chVars   == <<stdinInput, signalChannel, hpc, sigTrap>>
upVars   == <<up, uploadPart, uploadErr, lastCall>>
termVars == <<termRaw, oldTerminalState, deferRestore>>
obsVars  == <<runs, attempts, fails, slept, completeCalls, completeArg,
              completeOk, stdout, apiCalls, warned, headStatus>>
exitVars == <<exitCode, exitWhy>>
schVars  == <<schedLines, schedule, now, called, spc, sblock, argRate>>
mfaVars  == <<promptingForMfa, mfaCode, mfaPipe, tpc, tcode, held>>
flowVars == <<flowRate, flowElapsed, flowTransferred, flowPos, flowBypass,
              flowScanned, flowFixed>>
argVars  == <<partSizeRaw>>
extVars  == <<schVars, mfaVars, flowVars, argVars>>

vars == <<cfgVars, srvVars, pc, flagVars, stVars, ctlVars, chVars, upVars,
          termVars, obsVars, exitVars, extVars>>

\* ---------------------------------------------------------------- helpers
min(a, b) == IF a > b THEN b ELSE a

RECURSIVE SumSizes(_)
SumSizes(s) == IF s = <<>> THEN 0 ELSE s[1].size + SumSizes(Tail(s))

\* The ETag the store assigns: a function of the bytes of the part, here the
\* file region they were read from.
EtagOf(off, len) == <<off, len>>
\* ETag of a part holding bytes that are not a region of this file.
ForeignEtag(len) == <<0 - 1, len>>

NoCall == [num |-> 0, off |-> 0, len |-> 0]
NoRate == 0 - 1

\* ListParts: the parts of the upload in ascending part-number order.
ListedParts(sp) ==
  LET nums == { p.num : p \in sp }
  IN  [ i \in 1..Cardinality(nums) |->
          CHOOSE p \in sp : Cardinality({ m \in nums : m < p.num }) = i - 1 ]

\* sort.Ints over the part numbers of a list.
SortInts(s) ==
  [ i \in 1..Len(s) |->
      CHOOSE n \in { s[j] : j \in 1..Len(s) } :
        Cardinality({ j \in 1..Len(s) : s[j] < n }) = i - 1 ]

\* The parts list an uninterrupted fresh run hands to CompleteMultipartUpload.
NumParts(fs, ps) == (fs + ps - 1) \div ps
FreshParts(fs, ps) ==
  [ i \in 1..NumParts(fs, ps) |->
      [ num  |-> i,
        etag |-> EtagOf((i - 1) * ps, min(ps, fs - (i - 1) * ps)),
        size |-> min(ps, fs - (i - 1) * ps) ] ]

\* ListMultipartUploads lists the in-progress uploads of the whole bucket in
\* pages: an upload with another key is always among them, then the upload
\* for the destination key (if any) and a second one for the same key on
\* the same page or on the next one (srvDup).
DestKey == "key"
OtherKey == "key.old"
ListedUploads ==
  LET other == << [ key |-> OtherKey, id |-> 0 - 2 ] >>
      own   == IF srvUpload # 0
               THEN << [ key |-> DestKey, id |-> srvUpload ] >> ELSE <<>>
      dup   == << [ key |-> DestKey, id |-> 0 - 1 ] >>
  IN  IF srvDup = "samepage" THEN << other \o own \o dup >>
      ELSE IF srvDup = "nextpage" THEN << other \o own, other \o dup >>
      ELSE << other \o own >>

\* C16 mutant: uploads with other keys are not skipped.
RECURSIVE ScanUploads_AnyKey(_, _)
ScanUploads_AnyKey(uploads, found) ==
  IF uploads = <<>> THEN [ uploadId |-> found, duplicate |-> FALSE ]
  ELSE IF found # 0 THEN [ uploadId |-> found, duplicate |-> TRUE ]
  ELSE ScanUploads_AnyKey(Tail(uploads), uploads[1].id)

\* The scan of the listed uploads (lines 496-524): uploads with another key
\* are skipped, a second upload with the destination key is an error.
\* found is the upload id so far (0: the empty string).
RECURSIVE ScanUploads(_, _)
ScanUploads(uploads, found) ==
  IF uploads = <<>> THEN [ uploadId |-> found, duplicate |-> FALSE ]
  ELSE IF uploads[1].key # DestKey THEN ScanUploads(Tail(uploads), found)
  ELSE IF found # 0 THEN [ uploadId |-> found, duplicate |-> TRUE ]
  ELSE ScanUploads(Tail(uploads), uploads[1].id)

RECURSIVE ScanPages(_, _)
ScanPages(pages, found) ==
  IF pages = <<>> THEN [ uploadId |-> found, duplicate |-> FALSE ]
  ELSE LET r == ScanUploads(pages[1], found)
       IN  IF r.duplicate THEN r ELSE ScanPages(Tail(pages), r.uploadId)

\* States of the store the program may find when first invoked.
InitialServers ==
  { [ object |-> FALSE, dup |-> "none", upload |-> 0, parts |-> {} ],
    [ object |-> TRUE,  dup |-> "none", upload |-> 0, parts |-> {} ],
    [ object |-> FALSE, dup |-> "samepage", upload |-> 1, parts |-> {} ],
    [ object |-> FALSE, dup |-> "nextpage", upload |-> 1, parts |-> {} ],
    [ object |-> FALSE, dup |-> "none", upload |-> 1,
      parts |-> { [num |-> 1, size |-> 1, etag |-> ForeignEtag(1)],
                  [num |-> 3, size |-> 1, etag |-> ForeignEtag(1)] } ],
    [ object |-> FALSE, dup |-> "none", upload |-> 1,
      parts |-> { [num |-> 1, size |-> 5, etag |-> ForeignEtag(5)] } ],
    [ object |-> FALSE, dup |-> "none", upload |-> 1,
      parts |-> { [num |-> 1, size |-> 1, etag |-> ForeignEtag(1)] } ],
    [ object |-> FALSE, dup |-> "none", upload |-> 1,
      parts |-> { [num |-> 1, size |-> 2, etag |-> EtagOf(0, 2)],
                  [num |-> 2, size |-> 1, etag |-> EtagOf(2, 1)] } ] }

\* ------------------------------------------------------------------- Init
\* Values of the per-invocation variables while no process is running.
NoProcess ==
  /\ mode = "normal" /\ force = FALSE
  /\ uploadId = 0 /\ parts = <<>> /\ partNumber = 1 /\ offset = 0
  /\ interrupted = FALSE /\ paused = FALSE
  /\ waitingToUnpause = FALSE /\ waitingAfterError = FALSE
  /\ rate = 0 /\ oldRate = 0 /\ reader = <<>> /\ pauseRate = NoRate
  /\ stdinInput = <<>> /\ signalChannel = <<>> /\ hpc = "idle"
  /\ sigTrap = FALSE
  /\ up = "none" /\ uploadPart = <<>> /\ uploadErr = FALSE
  /\ lastCall = NoCall
  /\ oldTerminalState = FALSE /\ deferRestore = FALSE

\* No --schedule argument: schedule is nil, no scheduler goroutine runs
\* (line 691), and the clock plays no part.
NoCalled == [ fn |-> "none", block |-> 0, result |-> FALSE ]
NoBlock == [ index |-> 0, rate |-> 0, start |-> 0, end |-> 0 ]
NoSchedule ==
  /\ schedLines = <<>>
  /\ schedule = [ err |-> "nil", defaultRate |-> 0, blocks |-> <<>> ]
  /\ now = 0 /\ called = NoCalled
  /\ spc = "off" /\ sblock = NoBlock /\ argRate = NoRate

\* No MFA device is configured: the token provider is never invoked.
NoMfa ==
  /\ promptingForMfa = FALSE /\ mfaCode = <<>> /\ mfaPipe = <<>>
  /\ tpc = "idle" /\ tcode = <<>> /\ held = <<>>

\* No --part-size argument is given.
NoArgs == partSizeRaw = <<>>

\* No reader is under observation.
NoFlow ==
  /\ flowRate = 0 /\ flowElapsed = 0 /\ flowTransferred = 0 /\ flowPos = 0
  /\ flowBypass = FALSE /\ flowScanned = FALSE /\ flowFixed = TRUE

Init ==
  /\ \E c \in Configs : fileSize = c[1] /\ partSize = c[2]
  /\ initialRate \in InitialRates
  /\ \E s \in InitialServers :
       /\ srvObject = s.object /\ srvDup = s.dup
       /\ srvUpload = s.upload /\ srvParts = s.parts
  /\ srvNextId = 2
  /\ pc = "idle"
  /\ NoProcess
  /\ termRaw = FALSE
  /\ runs = 0 /\ attempts = 0 /\ fails = 0 /\ slept = 0
  /\ completeCalls = 0 /\ completeArg = <<>> /\ completeOk = FALSE
  /\ stdout = FALSE /\ apiCalls = {} /\ warned = {} /\ headStatus = 0
  /\ exitCode = "none" /\ exitWhy = "none"
  /\ NoSchedule /\ NoMfa /\ NoFlow /\ NoArgs

\* ----------------------------------------------------------- process end
\* The process is gone: its goroutines, channels and control variables with
\* it.  The terminal keeps the mode it was left in; the store keeps its state.
ProcessEnds(code, why, restored) ==
  /\ pc' = "exited" /\ exitCode' = code /\ exitWhy' = why
  /\ termRaw' = (termRaw /\ ~restored)
  /\ oldTerminalState' = FALSE /\ deferRestore' = FALSE
  /\ interrupted' = FALSE /\ paused' = FALSE
  /\ waitingToUnpause' = FALSE /\ waitingAfterError' = FALSE
  /\ rate' = 0 /\ oldRate' = 0 /\ reader' = <<>> /\ pauseRate' = NoRate
  /\ stdinInput' = <<>> /\ signalChannel' = <<>> /\ hpc' = "idle"
  /\ sigTrap' = FALSE
  /\ up' = "none"
  /\ UNCHANGED <<flagVars, uploadPart, uploadErr, lastCall>>

\* terminal.RestoreTerminal(state): it reads state.stdin, so a nil state is
\* a nil pointer dereference (a run-time panic, exit status 2).
RestoreTerminalFaults(state) == ~state

\* "return code, err" from run(): the deferred functions run, among them
\* (once registered) terminal.RestoreTerminal(oldTerminalState), then main
\* calls os.Exit(code).  A panic in the deferred call ends the process with
\* status 2 instead; exitWhy keeps what made run() return.
Return(code, why) ==
  IF deferRestore /\ RestoreTerminalFaults(oldTerminalState)
  THEN ProcessEnds("2", why, FALSE)
  ELSE ProcessEnds(code, why, deferRestore)

Running == pc \notin { "idle", "exited" }

\* ------------------------------------------------------------- pre-flight
Modes == { "normal", "dryrun", "version" }

\* The user invokes the program (again).
StartRun ==
  /\ pc \in { "idle", "exited" }
  /\ runs < MaxRuns
  /\ runs' = runs + 1
  /\ pc' = "args"
  /\ mode' \in Modes
  /\ force' \in BOOLEAN
  /\ uploadId' = 0 /\ parts' = <<>> /\ partNumber' = 1 /\ offset' = 0
  /\ uploadPart' = <<>> /\ uploadErr' = FALSE /\ lastCall' = NoCall
  /\ termRaw' = FALSE
  /\ attempts' = 0 /\ fails' = 0 /\ slept' = 0
  /\ completeCalls' = 0 /\ completeArg' = <<>> /\ completeOk' = FALSE
  /\ stdout' = FALSE /\ apiCalls' = {} /\ warned' = {}
  /\ headStatus' = 0
  /\ exitCode' = "none" /\ exitWhy' = "none"
  /\ UNCHANGED <<cfgVars, srvVars, ctlVars, chVars, up, oldTerminalState,
                 deferRestore>>
  /\ UNCHANGED extVars

\* --version: print the version on standard output, return 0.
Version ==
  /\ pc = "args" /\ mode = "version"
  /\ stdout' = TRUE
  /\ Return("0", "version")
  /\ UNCHANGED <<cfgVars, srvVars, stVars, runs, attempts, fails, slept,
                 completeCalls, completeArg, completeOk, apiCalls, warned,
                 headStatus>>
  /\ UNCHANGED extVars

\* Any of the fatal pre-flight errors before the first S3 call on the
\* object: arguments, endpoint URL, MFA secret, metadata, rate, schedule,
\* stat/open of the file, SHA256SUMS, SDK configuration, GetBucketLocation.
PreflightError ==
  /\ pc = "args" /\ mode # "version"
  /\ Return("1", "preflight")
  /\ UNCHANGED <<cfgVars, srvVars, stVars, obsVars>>
  /\ UNCHANGED extVars

PreflightOk ==
  /\ pc = "args" /\ mode # "version"
  /\ rate' = initialRate
  /\ pc' = "head"
  /\ UNCHANGED <<cfgVars, srvVars, flagVars, stVars, interrupted, paused,
                 waitingToUnpause, waitingAfterError, oldRate, reader, chVars,
                 upVars, termVars, obsVars, exitVars, pauseRate>>
  /\ UNCHANGED extVars

\* --force: no HeadObject.
HeadSkipped ==
  /\ pc = "head" /\ force
  /\ pc' = "listuploads"
  /\ UNCHANGED <<cfgVars, srvVars, flagVars, stVars, ctlVars, chVars, upVars,
                 termVars, obsVars, exitVars>>
  /\ UNCHANGED extVars

\* HeadObject answers 404.
HeadNotFound ==
  /\ pc = "head" /\ ~force /\ ~srvObject
  /\ apiCalls' = apiCalls \cup { "HeadObject" }
  /\ headStatus' = 404
  /\ pc' = "listuploads"
  /\ UNCHANGED <<cfgVars, srvVars, flagVars, stVars, ctlVars, chVars, upVars,
                 termVars, exitVars, runs, attempts, fails, slept,
                 completeCalls, completeArg, completeOk, stdout, warned>>
  /\ UNCHANGED extVars

\* C15 mutant: an existing object does not stop the run.
HeadExists_Proceeds ==
  /\ pc = "head" /\ ~force /\ srvObject
  /\ apiCalls' = apiCalls \cup { "HeadObject" }
  /\ headStatus' = 200
  /\ pc' = "listuploads"
  /\ UNCHANGED <<cfgVars, srvVars, flagVars, stVars, ctlVars, chVars, upVars,
                 termVars, exitVars, runs, attempts, fails, slept,
                 completeCalls, completeArg, completeOk, stdout, warned>>
  /\ UNCHANGED extVars

\* HeadObject succeeds: the object exists.
HeadExists ==
  /\ pc = "head" /\ ~force /\ srvObject
  /\ apiCalls' = apiCalls \cup { "HeadObject" }
  /\ headStatus' = 200
  /\ Return("1", "exists")
  /\ UNCHANGED <<cfgVars, srvVars, stVars, runs, attempts, fails, slept,
                 completeCalls, completeArg, completeOk, stdout, warned>>
  /\ UNCHANGED extVars

\* HeadObject fails with anything but 404.
HeadError ==
  /\ pc = "head" /\ ~force
  /\ apiCalls' = apiCalls \cup { "HeadObject" }
  /\ headStatus' = 500
  /\ Return("1", "preflight")
  /\ UNCHANGED <<cfgVars, srvVars, stVars, runs, attempts, fails, slept,
                 completeCalls, completeArg, completeOk, stdout, warned>>
  /\ UNCHANGED extVars

\* ------------------------------------------------------- resume discovery
\* A page of ListMultipartUploads fails.
ListUploadsError ==
  /\ pc = "listuploads"
  /\ apiCalls' = apiCalls \cup { "ListMultipartUploads" }
  /\ Return("1", "preflight")
  /\ UNCHANGED <<cfgVars, srvVars, stVars, runs, attempts, fails, slept,
                 completeCalls, completeArg, completeOk, stdout, warned,
                 headStatus>>
  /\ UNCHANGED extVars

\* More than one in-progress upload has the destination key.
ListUploadsDuplicate ==
  /\ pc = "listuploads" /\ ScanPages(ListedUploads, 0).duplicate
  /\ apiCalls' = apiCalls \cup { "ListMultipartUploads" }
  /\ Return("1", "preflight")
  /\ UNCHANGED <<cfgVars, srvVars, stVars, runs, attempts, fails, slept,
                 completeCalls, completeArg, completeOk, stdout, warned,
                 headStatus>>
  /\ UNCHANGED extVars

\* One upload matches, with another storage class than the requested one.
ListUploadsStorageClass ==
  /\ pc = "listuploads" /\ ScanPages(ListedUploads, 0).uploadId # 0
  /\ apiCalls' = apiCalls \cup { "ListMultipartUploads" }
  /\ uploadId' = ScanPages(ListedUploads, 0).uploadId
  /\ Return("1", "inconsistent")
  /\ UNCHANGED <<cfgVars, srvVars, parts, partNumber, offset, runs, attempts,
                 fails, slept, completeCalls, completeArg, completeOk, stdout,
                 warned, headStatus>>
  /\ UNCHANGED extVars

\* One upload matches: resume it.
ListUploadsFound ==
  /\ pc = "listuploads"
  /\ ~ScanPages(ListedUploads, 0).duplicate
  /\ ScanPages(ListedUploads, 0).uploadId # 0
  /\ apiCalls' = apiCalls \cup { "ListMultipartUploads" }
  /\ uploadId' = ScanPages(ListedUploads, 0).uploadId
  /\ pc' = "listparts"
  /\ UNCHANGED <<cfgVars, srvVars, flagVars, parts, partNumber, offset, ctlVars,
                 chVars, upVars, termVars, exitVars, runs, attempts, fails,
                 slept, completeCalls, completeArg, completeOk, stdout, warned,
                 headStatus>>
  /\ UNCHANGED extVars

\* No upload matches.
ListUploadsNone ==
  /\ pc = "listuploads"
  /\ ~ScanPages(ListedUploads, 0).duplicate
  /\ ScanPages(ListedUploads, 0).uploadId = 0
  /\ apiCalls' = apiCalls \cup { "ListMultipartUploads" }
  /\ pc' = "create"
  /\ UNCHANGED <<cfgVars, srvVars, flagVars, stVars, ctlVars, chVars, upVars,
                 termVars, exitVars, runs, attempts, fails, slept,
                 completeCalls, completeArg, completeOk, stdout, warned,
                 headStatus>>
  /\ UNCHANGED extVars

\* --dryrun with no upload in progress: "Upload not started."
CreateSkipped ==
  /\ pc = "create" /\ mode = "dryrun"
  /\ pc' = "discovered"
  /\ UNCHANGED <<cfgVars, srvVars, flagVars, stVars, ctlVars, chVars, upVars,
                 termVars, obsVars, exitVars>>
  /\ UNCHANGED extVars

CreateMultipartUploadError ==
  /\ pc = "create" /\ mode # "dryrun"
  /\ apiCalls' = apiCalls \cup { "CreateMultipartUpload" }
  /\ Return("1", "preflight")
  /\ UNCHANGED <<cfgVars, srvVars, stVars, runs, attempts, fails, slept,
                 completeCalls, completeArg, completeOk, stdout, warned,
                 headStatus>>
  /\ UNCHANGED extVars

CreateMultipartUpload ==
  /\ pc = "create" /\ mode # "dryrun"
  /\ apiCalls' = apiCalls \cup { "CreateMultipartUpload" }
  /\ srvUpload' = srvNextId /\ srvNextId' = srvNextId + 1
  /\ srvParts' = {}
  /\ uploadId' = srvNextId
  /\ pc' = "discovered"
  /\ UNCHANGED <<cfgVars, srvObject, srvDup, flagVars, parts, partNumber,
                 offset, ctlVars, chVars, upVars, termVars, exitVars, runs,
                 attempts, fails, slept, completeCalls, completeArg, completeOk,
                 stdout, warned, headStatus>>
  /\ UNCHANGED extVars

\* A page of ListParts fails.
ListPartsError ==
  /\ pc = "listparts"
  /\ apiCalls' = apiCalls \cup { "ListParts" }
  /\ Return("1", "preflight")
  /\ UNCHANGED <<cfgVars, srvVars, stVars, runs, attempts, fails, slept,
                 completeCalls, completeArg, completeOk, stdout, warned,
                 headStatus>>
  /\ UNCHANGED extVars

\* C3 mutant: the offset of a resumed upload counts every listed part as a
\* full part of partSize bytes.
Reconstructed_FullParts(listed) ==
  [ parts      |-> [ i \in 1..Len(listed) |->
                       [ num  |-> listed[i].num,
                         etag |-> listed[i].etag,
                         size |-> listed[i].size ] ],
    partNumber |-> 1 + Len(listed),
    offset     |-> partSize * Len(listed) ]

\* C5 mutant: a resumed run drops the last listed part and uploads it again.
Reconstructed_DropsLast(listed) ==
  LET kept == SubSeq(listed, 1, Len(listed) - 1)
  IN  [ parts      |-> [ i \in 1..Len(kept) |->
                           [ num  |-> kept[i].num,
                             etag |-> kept[i].etag,
                             size |-> kept[i].size ] ],
        partNumber |-> 1 + Len(kept),
        offset     |-> SumSizes(kept) ]

\* The state run() reconstructs from the pages of ListParts (lines 550-584):
\* one CompletedPart per listed part in listing order, partNumber advanced by
\* the number of parts, offset by their sizes.
Reconstructed(listed) ==
  [ parts      |-> [ i \in 1..Len(listed) |->
                       [ num  |-> listed[i].num,
                         etag |-> listed[i].etag,
                         size |-> listed[i].size ] ],
    partNumber |-> 1 + Len(listed),
    offset     |-> SumSizes(listed) ]

\* The checks on each listed part that is not the last part of the file
\* (lines 572-579): both only print a warning.
RECURSIVE PartWarningsFrom(_, _, _)
PartWarningsFrom(listed, part1Size, off) ==
  IF listed = <<>> THEN {}
  ELSE LET size == listed[1].size
           here == IF off + size = fileSize THEN {}
                   ELSE IF size < MinPartSize THEN { "small" }
                   ELSE IF size # part1Size THEN { "inconsistent" }
                   ELSE {}
       IN  here \cup PartWarningsFrom(Tail(listed), part1Size, off + size)
PartWarnings(listed) ==
  IF listed = <<>> THEN {}
  ELSE PartWarningsFrom(listed, listed[1].size, 0)

\* C17 mutant: only the first part number is checked.
NotContiguous_FirstOnly(ps) ==
  LET partNumbers == SortInts([ i \in 1..Len(ps) |-> ps[i].num ])
  IN  ps # <<>> /\ partNumbers[1] # 1

\* The gap check (lines 587-597): the sorted part numbers must be 1..N.
NotContiguous(ps) ==
  LET partNumbers == SortInts([ i \in 1..Len(ps) |-> ps[i].num ])
  IN  \E i \in 1..Len(ps) : partNumbers[i] # i

\* ListParts succeeds and the parts have a gap.
ListPartsGap ==
  /\ pc = "listparts"
  /\ apiCalls' = apiCalls \cup { "ListParts" }
  /\ warned' = PartWarnings(ListedParts(srvParts))
  /\ LET st == Reconstructed(ListedParts(srvParts))
     IN  /\ NotContiguous(st.parts)
         /\ parts' = st.parts /\ partNumber' = st.partNumber
         /\ offset' = st.offset
  /\ Return("1", "inconsistent")
  /\ UNCHANGED <<cfgVars, srvVars, uploadId, runs, attempts, fails, slept,
                 completeCalls, completeArg, completeOk, stdout,
                 headStatus>>
  /\ UNCHANGED extVars

\* ListParts succeeds and the parts hold more bytes than the local file.
ListPartsTooLarge ==
  /\ pc = "listparts"
  /\ apiCalls' = apiCalls \cup { "ListParts" }
  /\ warned' = PartWarnings(ListedParts(srvParts))
  /\ LET st == Reconstructed(ListedParts(srvParts))
     IN  /\ ~NotContiguous(st.parts)
         /\ st.offset > fileSize
         /\ parts' = st.parts /\ partNumber' = st.partNumber
         /\ offset' = st.offset
  /\ Return("1", "inconsistent")
  /\ UNCHANGED <<cfgVars, srvVars, uploadId, runs, attempts, fails, slept,
                 completeCalls, completeArg, completeOk, stdout,
                 headStatus>>
  /\ UNCHANGED extVars

\* C18 mutant: a size inconsistency among the listed parts ends the run.
ListPartsOk_MismatchFatal ==
  /\ pc = "listparts"
  /\ apiCalls' = apiCalls \cup { "ListParts" }
  /\ warned' = PartWarnings(ListedParts(srvParts))
  /\ LET st == Reconstructed(ListedParts(srvParts))
     IN  /\ ~NotContiguous(st.parts)
         /\ st.offset <= fileSize
         /\ parts' = st.parts /\ partNumber' = st.partNumber
         /\ offset' = st.offset
  /\ IF "inconsistent" \in warned'
     THEN Return("1", "inconsistent")
     ELSE /\ pc' = "discovered"
          /\ UNCHANGED <<flagVars, ctlVars, chVars, upVars, termVars,
                         exitVars>>
  /\ UNCHANGED <<cfgVars, srvVars, uploadId, runs, attempts, fails, slept,
                 completeCalls, completeArg, completeOk, stdout,
                 headStatus>>
  /\ UNCHANGED extVars

\* ListParts succeeds and the upload can be resumed.
ListPartsOk ==
  /\ pc = "listparts"
  /\ apiCalls' = apiCalls \cup { "ListParts" }
  /\ warned' = PartWarnings(ListedParts(srvParts))
  /\ LET st == Reconstructed(ListedParts(srvParts))
     IN  /\ ~NotContiguous(st.parts)
         /\ st.offset <= fileSize
         /\ parts' = st.parts /\ partNumber' = st.partNumber
         /\ offset' = st.offset
  /\ pc' = "discovered"
  /\ UNCHANGED <<cfgVars, srvVars, flagVars, uploadId, ctlVars, chVars,
                 upVars, termVars, exitVars, runs, attempts, fails, slept,
                 completeCalls, completeArg, completeOk, stdout,
                 headStatus>>
  /\ UNCHANGED extVars

\* --dryrun ends here with status 0 (lines 605-613).
DryrunReturn ==
  /\ pc = "discovered" /\ mode = "dryrun"
  /\ Return("0", "dryrun")
  /\ UNCHANGED <<cfgVars, srvVars, stVars, obsVars>>
  /\ UNCHANGED extVars

\* terminal.ConfigureTerminal (lines 615-623): on success the terminal is in
\* raw mode and its old state is saved; on failure the state is nil and a
\* warning is printed.  Either way the restore is deferred.
ConfigureTerminal(ok) ==
  /\ pc = "discovered" /\ mode # "dryrun"
  /\ oldTerminalState' = ok
  /\ termRaw' = ok
  /\ deferRestore' = TRUE
  /\ pc' = "notify"
  /\ UNCHANGED <<cfgVars, srvVars, flagVars, stVars, ctlVars, chVars, upVars,
                 obsVars, exitVars>>
  /\ UNCHANGED extVars

\* signal.Notify(signalChannel, os.Interrupt) and the start of the handler
\* goroutine (lines 663-685).
SignalNotify ==
  /\ pc = "notify"
  /\ sigTrap' = TRUE
  /\ pc' = "loop"
  /\ UNCHANGED <<cfgVars, srvVars, flagVars, stVars, ctlVars, stdinInput,
                 signalChannel, hpc, upVars, termVars, obsVars, exitVars>>
  /\ UNCHANGED extVars

\* ------------------------------------------------------------ key handling
AdjustKeys == { "a", "s", "d", "f", "z", "x", "c", "v" }

\* C13 mutant: 'd' adds what 's' adds.
KeyDelta_DLikeS(r) ==
  CASE r = "a" -> 1000
    [] r = "s" -> 10000
    [] r = "d" -> 10000
    [] r = "f" -> 250000
    [] r = "z" -> 0 - 1000
    [] r = "x" -> 0 - 10000
    [] r = "c" -> 0 - 100000
    [] r = "v" -> 0 - 250000

KeyDelta(r) ==
  CASE r = "a" -> 1000
    [] r = "s" -> 10000
    [] r = "d" -> 100000
    [] r = "f" -> 250000
    [] r = "z" -> 0 - 1000
    [] r = "x" -> 0 - 10000
    [] r = "c" -> 0 - 100000
    [] r = "v" -> 0 - 250000

DigitChars == << "0", "1", "2", "3", "4", "5", "6", "7", "8", "9" >>
IsDigit(r) == \E i \in 1..10 : DigitChars[i] = r
DigitOf(r) == (CHOOSE i \in 1..10 : DigitChars[i] = r) - 1

\* The key dispatch of the event loop (lines 792-905): the values of
\* interrupted, paused, rate, oldRate and the reader (its limit) after key r.
\* Keys that only print ('i', '?', enter) and unknown keys change nothing.
HandleKey(r) ==
  LET cur == [ interrupted |-> interrupted, paused |-> paused,
               rate |-> rate, oldRate |-> oldRate, reader |-> reader ]
  IN
  IF r = "u" THEN [ cur EXCEPT !.rate = 0, !.reader = << 0 >> ]
  ELSE IF r = "r"
  THEN [ cur EXCEPT !.rate = initialRate, !.reader = << initialRate >> ]
  ELSE IF r \in AdjustKeys
  THEN LET base == IF rate <= 1000 /\ r # "a" THEN 0 ELSE rate
           sum  == base + KeyDelta(r)
           new  == IF sum < 1000 THEN 1000 ELSE sum
       IN  [ cur EXCEPT !.rate = new, !.reader = << new >> ]
  ELSE IF IsDigit(r)
  THEN LET n   == DigitOf(r)
           new == IF n = 0 THEN 1000000 ELSE n * 100000
       IN  [ cur EXCEPT !.rate = new, !.reader = << new >> ]
  ELSE IF r = "p" THEN [ cur EXCEPT !.paused = ~paused ]
  ELSE IF r = " "
  THEN IF interrupted
       THEN [ cur EXCEPT !.interrupted = FALSE ]
       ELSE LET nowPaused == ~paused
                new == IF nowPaused THEN 1000 ELSE oldRate
            IN  [ cur EXCEPT !.paused = nowPaused,
                             !.oldRate = IF nowPaused THEN rate ELSE oldRate,
                             !.rate = new,
                             !.reader = << new >> ]
  ELSE cur

\* The rate a pause is to give back: recorded by the key that enters the
\* pause, dropped when the pause ends or another key sets the rate.
RateKeys == { "u", "r" } \cup AdjustKeys \cup { DigitChars[i] : i \in 1..10 }
PauseRateAfter(r) ==
  LET new == HandleKey(r)
  IN  IF ~paused /\ new.paused THEN rate
      ELSE IF paused /\ ~new.paused THEN NoRate
      ELSE IF r \in RateKeys THEN NoRate
      ELSE pauseRate

\* --------------------------------------------------------------- part loop
\* "for offset < fileSize" is over: signal.Reset, the sanity check
\* (lines 949-954).
LoopExit ==
  /\ pc = "loop" /\ ~(offset < fileSize)
  /\ IF offset # fileSize
     THEN Return("1", "sanity")
     ELSE /\ sigTrap' = FALSE
          /\ pc' = "complete"
          /\ UNCHANGED <<flagVars, ctlVars, stdinInput, signalChannel, hpc,
                         upVars, termVars, exitVars>>
  /\ UNCHANGED <<cfgVars, srvVars, stVars, obsVars>>
  /\ UNCHANGED extVars

\* "for paused": the coordinator announces that it waits for the space key.
PauseSet ==
  /\ pc = "loop" /\ offset < fileSize /\ paused
  /\ waitingToUnpause' = TRUE
  /\ pc' = "pausechk"
  /\ UNCHANGED <<cfgVars, srvVars, flagVars, stVars, interrupted, paused,
                 waitingAfterError, rate, oldRate, reader, chVars, upVars,
                 termVars, obsVars, exitVars, pauseRate>>
  /\ UNCHANGED extVars

\* "if interrupted { return 1, nil }" in the pause loop.
PauseInterrupted ==
  /\ pc = "pausechk" /\ interrupted
  /\ Return("1", "interrupted")
  /\ UNCHANGED <<cfgVars, srvVars, stVars, obsVars>>
  /\ UNCHANGED extVars

PausePrompt ==
  /\ pc = "pausechk" /\ ~interrupted
  /\ pc' = "pauserecv"
  /\ UNCHANGED <<cfgVars, srvVars, flagVars, stVars, ctlVars, chVars, upVars,
                 termVars, obsVars, exitVars>>
  /\ UNCHANGED extVars

\* C14 mutant: any key received at the pause prompt resumes.
PauseRecv_AnyKeyResumes ==
  /\ pc = "pauserecv" /\ stdinInput # <<>>
  /\ stdinInput' = <<>>
  /\ paused' = FALSE /\ waitingToUnpause' = FALSE
  /\ pauseRate' = NoRate
  /\ pc' = "loop"
  /\ UNCHANGED <<cfgVars, srvVars, flagVars, stVars, interrupted,
                 waitingAfterError, rate, oldRate, reader, signalChannel, hpc,
                 sigTrap, upVars, termVars, obsVars, exitVars>>
  /\ UNCHANGED extVars

\* "r := <-stdinInput" in the pause loop: only the space key resumes.
PauseRecv ==
  /\ pc = "pauserecv" /\ stdinInput # <<>>
  /\ stdinInput' = <<>>
  /\ IF Head(stdinInput) = " "
     THEN paused' = FALSE /\ waitingToUnpause' = FALSE
          /\ pauseRate' = NoRate
     ELSE UNCHANGED <<paused, waitingToUnpause, pauseRate>>
  /\ pc' = "loop"
  /\ UNCHANGED <<cfgVars, srvVars, flagVars, stVars, interrupted,
                 waitingAfterError, rate, oldRate, reader, signalChannel, hpc,
                 sigTrap, upVars, termVars, obsVars, exitVars>>
  /\ UNCHANGED extVars

\* C21 mutant: every part is given partSize bytes, the last one too.
Dispatch_FullSize ==
  /\ pc = "loop" /\ offset < fileSize /\ ~paused
  /\ lastCall' = [ num |-> partNumber, off |-> offset, len |-> partSize ]
  /\ reader' = << rate >>
  /\ up' = "inflight" /\ uploadPart' = <<>> /\ uploadErr' = FALSE
  /\ attempts' = attempts + 1
  /\ apiCalls' = apiCalls \cup { "UploadPart" }
  /\ pc' = "select"
  /\ UNCHANGED <<cfgVars, srvVars, flagVars, stVars, interrupted, paused,
                 waitingToUnpause, waitingAfterError, rate, oldRate, chVars,
                 termVars, exitVars, runs, fails, slept, completeCalls,
                 completeArg, completeOk, stdout, pauseRate, warned,
                 headStatus>>
  /\ UNCHANGED extVars

\* C35 mutant: the part loop runs once more when offset has reached
\* fileSize ("for offset <= fileSize").
Dispatch_AtEnd ==
  /\ pc = "loop" /\ offset <= fileSize /\ ~paused
  /\ LET size == min(partSize, fileSize - offset)
     IN  lastCall' = [ num |-> partNumber, off |-> offset, len |-> size ]
  /\ reader' = << rate >>
  /\ up' = "inflight" /\ uploadPart' = <<>> /\ uploadErr' = FALSE
  /\ attempts' = attempts + 1
  /\ apiCalls' = apiCalls \cup { "UploadPart" }
  /\ pc' = "select"
  /\ UNCHANGED <<cfgVars, srvVars, flagVars, stVars, interrupted, paused,
                 waitingToUnpause, waitingAfterError, rate, oldRate, chVars,
                 termVars, exitVars, runs, fails, slept, completeCalls,
                 completeArg, completeOk, stdout, pauseRate, warned,
                 headStatus>>
  /\ UNCHANGED extVars

\* Lines 751-783: allocate the region, construct the reader with the current
\* rate, start the upload goroutine with the current part number.
Dispatch ==
  /\ pc = "loop" /\ offset < fileSize /\ ~paused
  /\ LET size == min(partSize, fileSize - offset)
     IN  lastCall' = [ num |-> partNumber, off |-> offset, len |-> size ]
  /\ reader' = << rate >>
  /\ up' = "inflight" /\ uploadPart' = <<>> /\ uploadErr' = FALSE
  /\ attempts' = attempts + 1
  /\ apiCalls' = apiCalls \cup { "UploadPart" }
  /\ pc' = "select"
  /\ UNCHANGED <<cfgVars, srvVars, flagVars, stVars, interrupted, paused,
                 waitingToUnpause, waitingAfterError, rate, oldRate, chVars,
                 termVars, exitVars, runs, fails, slept, completeCalls,
                 completeArg, completeOk, stdout, pauseRate, warned,
                 headStatus>>
  /\ UNCHANGED extVars

\* The store records the part of the request in flight (a part with the same
\* number is replaced).
ServerStorePart ==
  /\ Running /\ up = "inflight"
  /\ srvParts' = { p \in srvParts : p.num # lastCall.num } \cup
                 { [ num  |-> lastCall.num, size |-> lastCall.len,
                     etag |-> EtagOf(lastCall.off, lastCall.len) ] }
  /\ up' = "stored"
  /\ UNCHANGED <<cfgVars, srvObject, srvDup, srvUpload, srvNextId, pc,
                 flagVars, stVars, ctlVars, chVars, uploadPart, uploadErr,
                 lastCall, termVars, obsVars, exitVars>>
  /\ UNCHANGED extVars

\* client.UploadPart returns the store's response; close(doneCh).
UploadPartOk ==
  /\ Running /\ up = "stored"
  /\ uploadPart' = (CHOOSE p \in srvParts : p.num = lastCall.num).etag
  /\ uploadErr' = FALSE
  /\ up' = "done"
  /\ UNCHANGED <<cfgVars, srvVars, pc, flagVars, stVars, ctlVars, chVars,
                 lastCall, termVars, obsVars, exitVars>>
  /\ UNCHANGED extVars

\* client.UploadPart returns an error, the request lost before the store
\* recorded the part or the response lost after it; close(doneCh).
UploadPartErr ==
  /\ Running /\ up \in { "inflight", "stored" }
  /\ fails < MaxFails
  /\ fails' = fails + 1
  /\ uploadPart' = <<>>
  /\ uploadErr' = TRUE
  /\ up' = "done"
  /\ UNCHANGED <<cfgVars, srvVars, pc, flagVars, stVars, ctlVars, chVars,
                 lastCall, termVars, exitVars, runs, attempts, slept,
                 completeCalls, completeArg, completeOk, stdout, apiCalls,
                 warned, headStatus>>
  /\ UNCHANGED extVars

\* C19 mutant: the coordinator leaves the select statement without the
\* completion signal.
SelectDone_NoWait ==
  /\ pc = "select"
  /\ pc' = "postpart"
  /\ UNCHANGED <<cfgVars, srvVars, flagVars, stVars, ctlVars, chVars, upVars,
                 termVars, obsVars, exitVars>>
  /\ UNCHANGED extVars

\* select, case <-doneCh (lines 787-790).
SelectDone ==
  /\ pc = "select" /\ up = "done"
  /\ pc' = "postpart"
  /\ UNCHANGED <<cfgVars, srvVars, flagVars, stVars, ctlVars, chVars, upVars,
                 termVars, obsVars, exitVars>>
  /\ UNCHANGED extVars

\* C11 mutant: the space key that cancels a pending exit also toggles the
\* pause, as it does when no exit is pending.
SelectKey_CancelAlsoPauses ==
  /\ pc = "select" /\ stdinInput # <<>>
  /\ stdinInput' = <<>>
  /\ LET r   == Head(stdinInput)
         new == HandleKey(r)
         tgl == IF r = " " /\ interrupted
                THEN [ new EXCEPT !.paused = ~paused,
                                  !.oldRate = IF paused THEN oldRate ELSE rate,
                                  !.rate = IF paused THEN oldRate ELSE 1000,
                                  !.reader = << IF paused THEN oldRate
                                                ELSE 1000 >> ]
                ELSE new
     IN  /\ interrupted' = tgl.interrupted /\ paused' = tgl.paused
         /\ rate' = tgl.rate /\ oldRate' = tgl.oldRate
         /\ reader' = tgl.reader
  /\ pauseRate' = PauseRateAfter(Head(stdinInput))
  /\ UNCHANGED <<cfgVars, srvVars, pc, flagVars, stVars, waitingToUnpause,
                 waitingAfterError, signalChannel, hpc, sigTrap, upVars,
                 termVars, obsVars, exitVars>>
  /\ UNCHANGED extVars

\* select, case r := <-stdinInput (lines 792-905).  The case may be taken
\* while doneCh is ready as well: select picks among the ready cases.
SelectKey ==
  /\ pc = "select" /\ stdinInput # <<>>
  /\ stdinInput' = <<>>
  /\ LET new == HandleKey(Head(stdinInput))
     IN  /\ interrupted' = new.interrupted /\ paused' = new.paused
         /\ rate' = new.rate /\ oldRate' = new.oldRate
         /\ reader' = new.reader
  /\ pauseRate' = PauseRateAfter(Head(stdinInput))
  /\ UNCHANGED <<cfgVars, srvVars, pc, flagVars, stVars, waitingToUnpause,
                 waitingAfterError, signalChannel, hpc, sigTrap, upVars,
                 termVars, obsVars, exitVars>>
  /\ UNCHANGED extVars

\* The part was uploaded and the user wants to stop (lines 916-923): the part
\* is not appended, run() returns 1, "Exited early.".
PartDoneInterrupted ==
  /\ pc = "postpart" /\ ~uploadErr /\ interrupted
  /\ Return("1", "interrupted")
  /\ UNCHANGED <<cfgVars, srvVars, stVars, obsVars>>
  /\ UNCHANGED extVars

\* C2 mutant: the part number is not advanced after a part is appended.
PartAppend_SameNumber ==
  /\ pc = "postpart" /\ ~uploadErr /\ ~interrupted
  /\ parts' = Append(parts, [ num  |-> partNumber, etag |-> uploadPart,
                              size |-> lastCall.len ])
  /\ offset' = offset + lastCall.len
  /\ partNumber' = partNumber
  /\ attempts' = 0 /\ fails' = 0 /\ slept' = 0
  /\ up' = "none"
  /\ pc' = "loop"
  /\ UNCHANGED <<cfgVars, srvVars, flagVars, uploadId, ctlVars, chVars,
                 uploadPart, uploadErr, lastCall, termVars, exitVars, runs,
                 completeCalls, completeArg, completeOk, stdout, apiCalls,
                 warned, headStatus>>
  /\ UNCHANGED extVars

\* The part was uploaded (lines 925-934): append its record, advance offset
\* and partNumber.
PartAppend ==
  /\ pc = "postpart" /\ ~uploadErr /\ ~interrupted
  /\ parts' = Append(parts, [ num  |-> partNumber, etag |-> uploadPart,
                              size |-> lastCall.len ])
  /\ offset' = offset + lastCall.len
  /\ partNumber' = partNumber + 1
  /\ attempts' = 0 /\ fails' = 0 /\ slept' = 0
  /\ up' = "none"
  /\ pc' = "loop"
  /\ UNCHANGED <<cfgVars, srvVars, flagVars, uploadId, ctlVars, chVars,
                 uploadPart, uploadErr, lastCall, termVars, exitVars, runs,
                 completeCalls, completeArg, completeOk, stdout, apiCalls,
                 warned, headStatus>>
  /\ UNCHANGED extVars

\* The part failed and the user wants to stop (lines 935-941).
PartFailedInterrupted ==
  /\ pc = "postpart" /\ uploadErr /\ interrupted
  /\ Return("1", "interrupted")
  /\ UNCHANGED <<cfgVars, srvVars, stVars, obsVars>>
  /\ UNCHANGED extVars

\* C1 mutant: a failed part is appended all the same.
PartFailed_Appends ==
  /\ pc = "postpart" /\ uploadErr /\ ~interrupted
  /\ parts' = Append(parts, [ num  |-> partNumber, etag |-> uploadPart,
                              size |-> lastCall.len ])
  /\ offset' = offset + lastCall.len
  /\ partNumber' = partNumber + 1
  /\ up' = "none"
  /\ pc' = "loop"
  /\ UNCHANGED <<cfgVars, srvVars, flagVars, uploadId, ctlVars, chVars,
                 uploadPart, uploadErr, lastCall, termVars, obsVars,
                 exitVars>>
  /\ UNCHANGED extVars

\* C4 mutant: the coordinator gives up on a part after its second failure.
PartFailed_GivesUp ==
  /\ pc = "postpart" /\ uploadErr /\ ~interrupted
  /\ IF fails >= 2
     THEN /\ Return("1", "interrupted")
          /\ UNCHANGED <<cfgVars, srvVars, stVars, obsVars>>
     ELSE /\ up' = "none"
          /\ pc' = "errset"
          /\ UNCHANGED <<cfgVars, srvVars, flagVars, stVars, ctlVars, chVars,
                         uploadPart, uploadErr, lastCall, termVars, obsVars,
                         exitVars>>
  /\ UNCHANGED extVars

\* The part failed: "Waiting 10 seconds and then retrying." (lines 942-943).
PartFailed ==
  /\ pc = "postpart" /\ uploadErr /\ ~interrupted
  /\ up' = "none"
  /\ pc' = "errset"
  /\ UNCHANGED <<cfgVars, srvVars, flagVars, stVars, ctlVars, chVars,
                 uploadPart, uploadErr, lastCall, termVars, obsVars,
                 exitVars>>
  /\ UNCHANGED extVars

\* waitingAfterError = true; time.Sleep begins (lines 944-945).
ErrWaitBegin ==
  /\ pc = "errset"
  /\ waitingAfterError' = TRUE
  /\ pc' = "errsleep"
  /\ UNCHANGED <<cfgVars, srvVars, flagVars, stVars, interrupted, paused,
                 waitingToUnpause, rate, oldRate, reader, chVars, upVars,
                 termVars, obsVars, exitVars, pauseRate>>
  /\ UNCHANGED extVars

\* The sleep is over; waitingAfterError = false (line 946); next iteration.
ErrWaitEnd ==
  /\ pc = "errsleep"
  /\ waitingAfterError' = FALSE
  /\ slept' = slept + ErrorWaitSeconds
  /\ pc' = "loop"
  /\ UNCHANGED <<cfgVars, srvVars, flagVars, stVars, interrupted, paused,
                 waitingToUnpause, rate, oldRate, reader, chVars, upVars,
                 termVars, exitVars, runs, attempts, fails, completeCalls,
                 completeArg, completeOk, stdout, apiCalls, pauseRate, warned,
                 headStatus>>
  /\ UNCHANGED extVars

\* -------------------------------------------------------------- completion
\* The store assembles the object when every part of the request is a part
\* of the upload with that ETag, in ascending part-number order.
StoreAccepts(arg) ==
  /\ srvUpload # 0
  /\ \A i \in 1..Len(arg) :
       \E p \in srvParts : p.num = arg[i].num /\ p.etag = arg[i].etag
  /\ \A i \in 1..(Len(arg) - 1) : arg[i].num < arg[i + 1].num

\* client.CompleteMultipartUpload succeeds (lines 956-975).
CompleteMultipartUpload ==
  /\ pc = "complete"
  /\ StoreAccepts(parts)
  /\ completeCalls' = completeCalls + 1
  /\ completeArg' = parts
  /\ completeOk' = TRUE
  /\ apiCalls' = apiCalls \cup { "CompleteMultipartUpload" }
  /\ srvUpload' = 0 /\ srvParts' = {} /\ srvObject' = TRUE
  /\ pc' = "output"
  /\ UNCHANGED <<cfgVars, srvDup, srvNextId, flagVars, stVars, ctlVars, chVars,
                 upVars, termVars, exitVars, runs, attempts, fails, slept,
                 stdout, warned, headStatus>>
  /\ UNCHANGED extVars

\* C6 mutant: a failed CompleteMultipartUpload aborts the multipart upload.
CompleteMultipartUploadError_Aborts ==
  /\ pc = "complete"
  /\ completeCalls' = completeCalls + 1
  /\ completeArg' = parts
  /\ apiCalls' = apiCalls \cup { "CompleteMultipartUpload" }
  /\ srvUpload' = 0 /\ srvParts' = {}
  /\ Return("1", "completefail")
  /\ UNCHANGED <<cfgVars, srvObject, srvDup, srvNextId, stVars, runs, attempts,
                 fails, slept, completeOk, stdout, warned, headStatus>>
  /\ UNCHANGED extVars

\* client.CompleteMultipartUpload fails: "return 1, err" (lines 970-973).
CompleteMultipartUploadError ==
  /\ pc = "complete"
  /\ completeCalls' = completeCalls + 1
  /\ completeArg' = parts
  /\ apiCalls' = apiCalls \cup { "CompleteMultipartUpload" }
  /\ Return("1", "completefail")
  /\ UNCHANGED <<cfgVars, srvVars, stVars, runs, attempts, fails, slept,
                 completeOk, stdout, warned, headStatus>>
  /\ UNCHANGED extVars

\* The response is printed on standard output; "return 0, nil"
\* (lines 977-984).
OutputAndReturn ==
  /\ pc = "output"
  /\ stdout' = TRUE
  /\ Return("0", "success")
  /\ UNCHANGED <<cfgVars, srvVars, stVars, runs, attempts, fails, slept,
                 completeCalls, completeArg, completeOk, apiCalls, warned,
                 headStatus>>
  /\ UNCHANGED extVars

\* jsonMarshalSortedIndent fails: "return 1, err" (lines 978-981).
OutputMarshalError ==
  /\ pc = "output"
  /\ Return("1", "marshal")
  /\ UNCHANGED <<cfgVars, srvVars, stVars, obsVars>>
  /\ UNCHANGED extVars

\* ------------------------------------------------- stdin, SIGINT, handler
\* The stdin goroutine exists from line 627 on.
StdinLive ==
  pc \in { "notify", "loop", "pausechk", "pauserecv", "select", "postpart",
           "errset", "errsleep", "complete", "output" }

\* The stdin goroutine reads a character and sends it on stdinInput
\* (capacity 1; the send waits while the channel is full).
StdinKey(r) ==
  /\ StdinLive /\ stdinInput = <<>>
  /\ stdinInput' = << r >>
  /\ UNCHANGED <<cfgVars, srvVars, pc, flagVars, stVars, ctlVars,
                 signalChannel, hpc, sigTrap, upVars, termVars, obsVars,
                 exitVars>>
  /\ UNCHANGED extVars

\* SIGINT while signal.Notify is in effect: queued on signalChannel
\* (capacity 1).
Sigint ==
  /\ Running /\ sigTrap /\ signalChannel = <<>>
  /\ signalChannel' = << "interrupt" >>
  /\ UNCHANGED <<cfgVars, srvVars, pc, flagVars, stVars, ctlVars, stdinInput,
                 hpc, sigTrap, upVars, termVars, obsVars, exitVars>>
  /\ UNCHANGED extVars

\* SIGINT while no signal.Notify is in effect (before line 665, after
\* signal.Reset on line 949): the Go runtime's default disposition ends the
\* process by the signal; no deferred function runs.
SigintDefault ==
  /\ Running /\ ~sigTrap
  /\ ProcessEnds("SIGINT", "killed", FALSE)
  /\ UNCHANGED <<cfgVars, srvVars, stVars, obsVars>>
  /\ UNCHANGED extVars

\* C32 mutant: the handler ends the process without putting the terminal
\* back.
HandlerHardExit_NoRestore ==
  /\ Running /\ hpc = "idle" /\ signalChannel # <<>>
  /\ interrupted \/ waitingAfterError
  /\ ProcessEnds("1", IF waitingAfterError THEN "waitexit" ELSE "hardexit",
                 FALSE)
  /\ UNCHANGED <<cfgVars, srvVars, stVars, obsVars>>
  /\ UNCHANGED extVars

\* Handler, lines 667-677: a signal while interrupted or waitingAfterError
\* is set restores the terminal (when a state was saved) and exits with 1.
HandlerHardExit ==
  /\ Running /\ hpc = "idle" /\ signalChannel # <<>>
  /\ interrupted \/ waitingAfterError
  /\ ProcessEnds("1", IF waitingAfterError THEN "waitexit" ELSE "hardexit",
                 oldTerminalState)
  /\ UNCHANGED <<cfgVars, srvVars, stVars, obsVars>>
  /\ UNCHANGED extVars

\* Handler, lines 678-683: the first signal sets interrupted; at the pause
\* prompt a synthetic key is then to be sent, otherwise the notice is printed.
HandlerInterrupt ==
  /\ Running /\ hpc = "idle" /\ signalChannel # <<>>
  /\ ~(interrupted \/ waitingAfterError)
  /\ signalChannel' = <<>>
  /\ interrupted' = TRUE
  /\ hpc' = IF waitingToUnpause THEN "send" ELSE "idle"
  /\ UNCHANGED <<cfgVars, srvVars, pc, flagVars, stVars, paused,
                 waitingToUnpause, waitingAfterError, rate, oldRate, reader,
                 stdinInput, sigTrap, upVars, termVars, obsVars, exitVars,
                 pauseRate>>
  /\ UNCHANGED extVars

\* Handler, line 680: stdinInput <- 'q' (waits while the channel is full).
HandlerSend ==
  /\ Running /\ hpc = "send" /\ stdinInput = <<>>
  /\ stdinInput' = << "q" >>
  /\ hpc' = "idle"
  /\ UNCHANGED <<cfgVars, srvVars, pc, flagVars, stVars, ctlVars,
                 signalChannel, sigTrap, upVars, termVars, obsVars, exitVars>>
  /\ UNCHANGED extVars

\* ------------------------------------------------------------------- Next
Next ==
  \/ StartRun
  \/ Version \/ PreflightError \/ PreflightOk
  \/ HeadSkipped \/ HeadNotFound \/ HeadExists \/ HeadError
  \/ ListUploadsError \/ ListUploadsDuplicate \/ ListUploadsStorageClass
  \/ ListUploadsFound \/ ListUploadsNone
  \/ CreateSkipped \/ CreateMultipartUploadError \/ CreateMultipartUpload
  \/ ListPartsError \/ ListPartsGap \/ ListPartsTooLarge \/ ListPartsOk
  \/ DryrunReturn
  \/ \E ok \in BOOLEAN : ConfigureTerminal(ok)
  \/ SignalNotify
  \/ LoopExit \/ PauseSet \/ PauseInterrupted \/ PausePrompt \/ PauseRecv
  \/ Dispatch \/ ServerStorePart \/ UploadPartOk \/ UploadPartErr
  \/ SelectDone \/ SelectKey
  \/ PartDoneInterrupted \/ PartAppend \/ PartFailedInterrupted \/ PartFailed
  \/ ErrWaitBegin \/ ErrWaitEnd
  \/ CompleteMultipartUpload \/ CompleteMultipartUploadError
  \/ OutputAndReturn \/ OutputMarshalError
  \/ \E r \in Keys : StdinKey(r)
  \/ Sigint \/ SigintDefault
  \/ HandlerHardExit \/ HandlerInterrupt \/ HandlerSend

Spec == Init /\ [][Next]_vars

\* ------------------------------------------------------------ the keyboard
\* A second specification for the keys: one fresh run, taken up where the
\* part loop begins (the upload was just created, the terminal is
\* configured, the SIGINT handler is registered), with more initial rates
\* and more keys than Spec, and an S3 store that answers every UploadPart.
KeyRates == { 0, 2000 }
KeyKeys == { " ", "p", "a", "s", "d", "f", "u", "r", "q" }

KeyInit ==
  /\ \E c \in Configs : fileSize = c[1] /\ partSize = c[2]
  /\ initialRate \in KeyRates
  /\ srvObject = FALSE /\ srvDup = "none" /\ srvUpload = 2 /\ srvParts = {}
  /\ srvNextId = 3
  /\ pc = "loop"
  /\ mode = "normal" /\ force = FALSE
  /\ uploadId = 2 /\ parts = <<>> /\ partNumber = 1 /\ offset = 0
  /\ interrupted = FALSE /\ paused = FALSE
  /\ waitingToUnpause = FALSE /\ waitingAfterError = FALSE
  /\ rate = initialRate /\ oldRate = 0 /\ reader = <<>>
  /\ pauseRate = NoRate
  /\ stdinInput = <<>> /\ signalChannel = <<>> /\ hpc = "idle"
  /\ sigTrap = TRUE
  /\ up = "none" /\ uploadPart = <<>> /\ uploadErr = FALSE
  /\ lastCall = NoCall
  /\ termRaw = TRUE /\ oldTerminalState = TRUE /\ deferRestore = TRUE
  /\ runs = 1 /\ attempts = 0 /\ fails = 0 /\ slept = 0
  /\ completeCalls = 0 /\ completeArg = <<>> /\ completeOk = FALSE
  /\ stdout = FALSE /\ warned = {} /\ headStatus = 404
  /\ apiCalls = { "HeadObject", "ListMultipartUploads",
                  "CreateMultipartUpload" }
  /\ exitCode = "none" /\ exitWhy = "none"
  /\ NoSchedule /\ NoMfa /\ NoFlow /\ NoArgs

\* The user types a key; the keys that raise the rate are typed only while
\* the rate is at most MaxRate.
KeyTyped(r) ==
  /\ r \in { "a", "s", "d", "f" } => rate <= MaxRate
  /\ StdinKey(r)

KeyNext ==
  \/ LoopExit
  \/ PauseSet
  \/ PauseInterrupted
  \/ PausePrompt
  \/ PauseRecv
  \/ Dispatch
  \/ ServerStorePart
  \/ UploadPartOk
  \/ SelectDone
  \/ SelectKey
  \/ PartDoneInterrupted
  \/ PartAppend
  \/ \E r \in KeyKeys : KeyTyped(r)
  \/ Sigint
  \/ HandlerHardExit
  \/ HandlerInterrupt
  \/ HandlerSend

KeySpec == KeyInit /\ [][KeyNext]_vars

\* ------------------------------------------- automatic part size (int64)
\* The part size selection of run() (lines 268-296) works on int64 values
\* far beyond the small units of Configs.  In PartSizeSpec fileSize and
\* partSize hold 64-bit two's complement integers as four 16-bit limbs,
\* least significant first; Go's int64 arithmetic wraps around.
Limb == 65536
SignLimb == 32768
MaxShift == 11

Int64(n) == << n % Limb, (n \div Limb) % Limb, 0, 0 >>

\* x * m in int64 arithmetic, for a small non-negative m.
Mul64(x, m) ==
  LET p1 == x[1] * m
      p2 == x[2] * m + (p1 \div Limb)
      p3 == x[3] * m + (p2 \div Limb)
      p4 == x[4] * m + (p3 \div Limb)
  IN  << p1 % Limb, p2 % Limb, p3 % Limb, p4 % Limb >>

\* x + 1 in int64 arithmetic.
Inc64(x) ==
  LET s1 == x[1] + 1
      s2 == x[2] + (s1 \div Limb)
      s3 == x[3] + (s2 \div Limb)
      s4 == x[4] + (s3 \div Limb)
  IN  << s1 % Limb, s2 % Limb, s3 % Limb, s4 % Limb >>

Negative64(x) == x[4] >= SignLimb

\* a < b on int64 values.
Less64(a, b) ==
  IF Negative64(a) # Negative64(b) THEN Negative64(a)
  ELSE \E i \in 1..4 : /\ a[i] < b[i]
                       /\ \A j \in (i + 1)..4 : a[j] = b[j]

RECURSIVE Shl64(_, _)
Shl64(x, n) == IF n = 0 THEN x ELSE Shl64(Mul64(x, 2), n - 1)

MiB == Mul64(Int64(1024), 1024)
GiB == Mul64(MiB, 1024)
MaxInt64 == << Limb - 1, Limb - 1, Limb - 1, SignLimb - 1 >>
\* 10000 * 2^52 in int64 arithmetic (113 * 2^56): the largest value the
\* product 10000*partSize takes once it has wrapped around.
WrappedProduct ==
  Mul64(Mul64(Mul64(Mul64(MiB, 16), 16384), 16384), 10000)

\* File sizes os.Stat can report: around each point where the number of
\* doublings changes, around 10000 * 5 GiB, and the largest ones.
FileSizes ==
  { Int64(0), Int64(1), MaxInt64 }
  \cup { Mul64(Shl64(Mul64(MiB, 8), j), 10000) : j \in 0..MaxShift }
  \cup { Inc64(Mul64(Shl64(Mul64(MiB, 8), j), 10000)) : j \in 0..MaxShift }
  \cup { Mul64(Mul64(GiB, 5), 10000), Inc64(Mul64(Mul64(GiB, 5), 10000)) }
  \cup { WrappedProduct, Inc64(WrappedProduct) }

\* run() has the file size and no --part-size: "var partSize int64 = 8 * MiB".
PartSizeInit ==
  /\ fileSize \in FileSizes
  /\ partSize = Mul64(MiB, 8)
  /\ initialRate = 0
  /\ srvObject = FALSE /\ srvDup = "none" /\ srvUpload = 0 /\ srvParts = {}
  /\ srvNextId = 2
  /\ pc = "partsize"
  /\ NoProcess
  /\ termRaw = FALSE
  /\ runs = 1 /\ attempts = 0 /\ fails = 0 /\ slept = 0
  /\ completeCalls = 0 /\ completeArg = <<>> /\ completeOk = FALSE
  /\ stdout = FALSE /\ apiCalls = {} /\ warned = {} /\ headStatus = 0
  /\ exitCode = "none" /\ exitWhy = "none"
  /\ NoSchedule /\ NoMfa /\ NoFlow /\ NoArgs

\* "for 10000*partSize < fileSize { partSize *= 2 }": one iteration.
PartSizeDouble ==
  /\ pc = "partsize"
  /\ Less64(Mul64(partSize, 10000), fileSize)
  /\ partSize' = Mul64(partSize, 2)
  /\ UNCHANGED <<fileSize, initialRate, srvVars, pc, flagVars, stVars,
                 ctlVars, chVars, upVars, termVars, obsVars, exitVars>>
  /\ UNCHANGED extVars

\* The loop is over: "if partSize > 5*GiB { partSize = 5 * GiB }".
PartSizeCap ==
  /\ pc = "partsize"
  /\ ~Less64(Mul64(partSize, 10000), fileSize)
  /\ partSize' = IF Less64(Mul64(GiB, 5), partSize)
                 THEN Mul64(GiB, 5) ELSE partSize
  /\ pc' = "partsized"
  /\ UNCHANGED <<fileSize, initialRate, srvVars, flagVars, stVars, ctlVars,
                 chVars, upVars, termVars, obsVars, exitVars>>
  /\ UNCHANGED extVars

PartSizeNext ==
  \/ PartSizeDouble
  \/ PartSizeCap

PartSizeSpec == PartSizeInit /\ [][PartSizeNext]_vars

\* ------------------------------------------------- the schedule (schedule.go)
\* A block line of the schedule file, "<weekday>[-<weekday>] HHMM-HHMM: rate",
\* is a record of the numbers readSchedule parses from it: days holds the one
\* or two weekdays of the weekday spec (Sunday is 0).  The file has no
\* "default:" line.  The clock counts minutes from a Sunday 00:00 in a zone
\* without daylight saving transitions.
MaxLines == 3
SchedHours == { 8, 9 }
SchedMinutes == { 0, 30 }
DaySpecs == { << 1 >>, << 6, 1 >> }
SchedRates == { 3000 }

ScheduleLines ==
  [ days : DaySpecs, startHour : SchedHours, startMinute : SchedMinutes,
    endHour : SchedHours, endMinute : SchedMinutes, rate : SchedRates ]

ScheduleFiles ==
  UNION { [ 1..n -> ScheduleLines ] : n \in 0..MaxLines }

\* The instants the clock is read at: every quarter of an hour of a Monday
\* from 07:45 to 09:45, and of the Sunday after from 08:00 to 08:30.
Instants ==
  { 1440 + 465 + 15 * k : k \in 0..8 }
  \cup { 7 * 1440 + 480 + 15 * k : k \in 0..2 }
FirstInstant == CHOOSE t \in Instants : \A u \in Instants : t <= u

Weekday(t) == (t \div 1440) % 7
StartOfDay(t) == (t \div 1440) * 1440

\* readSchedule, the weekdays of a line (lines 92-112): the first weekday,
\* then every day up to the second one, which is moved a week ahead when it
\* is smaller than the first.
Weekdays(line) ==
  IF Len(line.days) = 1 THEN << line.days[1] >>
  ELSE LET startWeekday == line.days[1]
           endWeekday == IF line.days[2] < startWeekday
                         THEN line.days[2] + 7 ELSE line.days[2]
       IN  [ k \in 1..(endWeekday - startWeekday + 1) |->
               IF k = 1 THEN startWeekday ELSE (startWeekday + k - 1) % 7 ]

\* readSchedule, the check of the parsed times (lines 136-141): TRUE when the
\* line is refused with "bad time spec".
BadTimeSpec(line) ==
  \/ line.startHour > 23 \/ line.startMinute > 59
  \/ line.endHour > 23 \/ line.endMinute > 59
  \/ line.endHour < line.startHour
  \/ (line.startHour = line.endHour /\ line.endMinute < line.startMinute)

\* readSchedule, lines 148-150: one ScheduleBlock per weekday of the line.
LineBlocks(line) ==
  [ k \in 1..Len(Weekdays(line)) |->
      [ weekday |-> Weekdays(line)[k],
        startHour |-> line.startHour, startMinute |-> line.startMinute,
        endHour |-> line.endHour, endMinute |-> line.endMinute,
        rate |-> line.rate ] ]

\* The blocks appended by the scanner loop (lines 61-151), in file order.
RECURSIVE ParsedBlocks(_)
ParsedBlocks(lines) ==
  IF lines = <<>> THEN <<>>
  ELSE LineBlocks(Head(lines)) \o ParsedBlocks(Tail(lines))

\* The less function handed to sort.Slice (lines 157-164).
BlockLess(a, b) ==
  \/ a.weekday < b.weekday
  \/ (a.weekday = b.weekday /\ a.startHour < b.startHour)
  \/ (a.weekday = b.weekday /\ a.startHour = b.startHour
        /\ a.startMinute < b.startMinute)

\* sort.Slice is not stable: blocks that compare equal may come out in any
\* order.  Inserts(b, s): the sorted sequences made of sorted s and b.
Inserts(b, s) ==
  { SubSeq(s, 1, k) \o << b >> \o SubSeq(s, k + 1, Len(s)) :
      k \in { k \in 0..Len(s) :
                /\ \A i \in 1..k : ~BlockLess(b, s[i])
                /\ \A i \in (k + 1)..Len(s) : ~BlockLess(s[i], b) } }

RECURSIVE SortResults(_)
SortResults(blocks) ==
  IF blocks = <<>> THEN { <<>> }
  ELSE UNION { Inserts(Head(blocks), s) : s \in SortResults(Tail(blocks)) }

\* The check of the sorted blocks comparing hours only.
AdjacentOverlap_HoursOnly(blocks) ==
  \E i \in 1..(Len(blocks) - 1) :
    /\ blocks[i].weekday = blocks[i + 1].weekday
    /\ blocks[i].endHour > blocks[i + 1].startHour

\* readSchedule, the check of the sorted blocks (lines 168-178): a block and
\* the one after it on the same weekday, the first ending after the second
\* starts.
AdjacentOverlap(blocks) ==
  \E i \in 1..(Len(blocks) - 1) :
    LET j == i + 1
    IN  /\ blocks[i].weekday = blocks[j].weekday
        /\ \/ blocks[i].endHour > blocks[j].startHour
           \/ (blocks[i].endHour = blocks[j].startHour
                 /\ blocks[i].endMinute > blocks[j].startMinute)

\* readSchedule(fn): the results it may return for the lines of the file,
\* err "none" for a nil error.
Rejected(why) == [ err |-> why, defaultRate |-> 0, blocks |-> <<>> ]

readSchedule(lines) ==
  IF \E i \in 1..Len(lines) : BadTimeSpec(lines[i])
  THEN { Rejected("bad time spec") }
  ELSE IF ParsedBlocks(lines) = <<>>
  THEN { Rejected("schedule is empty") }
  ELSE { IF AdjacentOverlap(blocks)
         THEN Rejected("time ranges are not allowed to overlap")
         ELSE [ err |-> "none", defaultRate |-> 0, blocks |-> blocks ] :
         blocks \in SortResults(ParsedBlocks(lines)) }

\* ScheduleBlock.next() at clock reading t (lines 200-220): start and end of
\* the block's occurrence on its weekday of the week that begins today, a
\* week later when t is after that end.
BlockNext(block, t) ==
  LET days  == (block.weekday - Weekday(t) + 7) % 7
      day   == StartOfDay(t) + days * 1440
      start == day + block.startHour * 60 + block.startMinute
      end0  == day + block.endHour * 60 + block.endMinute
      end   == IF end0 < start THEN end0 + 60 ELSE end0
  IN  IF t > end
      THEN [ start |-> start + 7 * 1440, end |-> end0 + 7 * 1440 ]
      ELSE [ start |-> start, end |-> end ]

\* ScheduleBlock.active() (lines 222-226): now.After(nextStart).
BlockActive(block, t) == t > BlockNext(block, t).start

\* Schedule.next() with "timeUntil <= minTimeUntil": a tie goes to the later
\* block.
RECURSIVE NextLoop_TiesToLater(_, _, _, _, _)
NextLoop_TiesToLater(blocks, t, k, minBlock, minTimeUntil) ==
  IF k > Len(blocks) THEN minBlock
  ELSE LET timeUntil == BlockNext(blocks[k], t).start - t
       IN  IF minBlock = 0 \/ timeUntil < 0 \/ timeUntil <= minTimeUntil
           THEN NextLoop_TiesToLater(blocks, t, k + 1, k, timeUntil)
           ELSE NextLoop_TiesToLater(blocks, t, k + 1, minBlock,
                                     minTimeUntil)

\* Schedule.next() (lines 184-198): the index of the block it returns; k is
\* the loop index, minBlock the index held so far (0: nil).
RECURSIVE NextLoop(_, _, _, _, _)
NextLoop(blocks, t, k, minBlock, minTimeUntil) ==
  IF k > Len(blocks) THEN minBlock
  ELSE LET timeUntil == BlockNext(blocks[k], t).start - t
       IN  IF minBlock = 0 \/ timeUntil < 0 \/ timeUntil < minTimeUntil
           THEN NextLoop(blocks, t, k + 1, k, timeUntil)
           ELSE NextLoop(blocks, t, k + 1, minBlock, minTimeUntil)

ScheduleNext(blocks, t) == NextLoop(blocks, t, 1, 0, 0)

\* run() loads the schedule file (lines 248-258); an error ends the run with
\* status 1.  No --bwlimit is given and the file has no default rate.
ReadSchedule ==
  /\ pc = "args" /\ schedule.err = "unread"
  /\ \E s \in readSchedule(schedLines) :
       /\ schedule' = s
       /\ IF s.err = "none"
          THEN UNCHANGED <<pc, flagVars, ctlVars, chVars, upVars, termVars,
                           exitVars>>
          ELSE Return("1", "schedule")
  /\ UNCHANGED <<cfgVars, srvVars, stVars, obsVars, schedLines, now, called,
                 spc, sblock, argRate, mfaVars, flowVars, argVars>>

\* Time passes, up to the next instant the clock is read at.
Tick ==
  /\ schedule.err = "none" /\ pc = "args"
  /\ \E t \in Instants :
       /\ t > now /\ \A u \in Instants : u > now => t <= u
       /\ now' = t
  /\ called' = NoCalled
  /\ UNCHANGED <<cfgVars, srvVars, pc, flagVars, stVars, ctlVars, chVars,
                 upVars, termVars, obsVars, exitVars, schedLines, schedule,
                 spc, sblock, argRate, mfaVars, flowVars, argVars>>

\* schedule.next() is called at the present reading of the clock.
CallNext ==
  /\ schedule.err = "none" /\ pc = "args"
  /\ called' = [ fn |-> "next", block |-> ScheduleNext(schedule.blocks, now),
                 result |-> FALSE ]
  /\ UNCHANGED <<cfgVars, srvVars, pc, flagVars, stVars, ctlVars, chVars,
                 upVars, termVars, obsVars, exitVars, schedLines, schedule,
                 now, spc, sblock, argRate, mfaVars, flowVars, argVars>>

\* active() is called on block i of the schedule.
CallActive(i) ==
  /\ schedule.err = "none" /\ pc = "args"
  /\ i \in 1..Len(schedule.blocks)
  /\ called' = [ fn |-> "active", block |-> i,
                 result |-> BlockActive(schedule.blocks[i], now) ]
  /\ UNCHANGED <<cfgVars, srvVars, pc, flagVars, stVars, ctlVars, chVars,
                 upVars, termVars, obsVars, exitVars, schedLines, schedule,
                 now, spc, sblock, argRate, mfaVars, flowVars, argVars>>

SchedInit ==
  /\ fileSize = 3 /\ partSize = 2 /\ initialRate = 0
  /\ srvObject = FALSE /\ srvDup = "none" /\ srvUpload = 0 /\ srvParts = {}
  /\ srvNextId = 2
  /\ pc = "args"
  /\ NoProcess
  /\ termRaw = FALSE
  /\ runs = 1 /\ attempts = 0 /\ fails = 0 /\ slept = 0
  /\ completeCalls = 0 /\ completeArg = <<>> /\ completeOk = FALSE
  /\ stdout = FALSE /\ apiCalls = {} /\ warned = {} /\ headStatus = 0
  /\ exitCode = "none" /\ exitWhy = "none"
  /\ schedLines \in ScheduleFiles
  /\ schedule = Rejected("unread")
  /\ now = FirstInstant /\ called = NoCalled
  /\ spc = "off" /\ sblock = NoBlock /\ argRate = NoRate
  /\ NoMfa /\ NoFlow /\ NoArgs

SchedNext ==
  \/ ReadSchedule
  \/ Tick
  \/ CallNext
  \/ \E i \in 1..(3 * MaxLines) : CallActive(i)

SchedSpec == SchedInit /\ [][SchedNext]_vars

\* ------------------------------------- the scheduler goroutine (691-731)
\* RunSpec: the part loop of a fresh two-part upload with a schedule loaded
\* and --bwlimit given, from the point where run() looks at the schedule
\* (line 691).  The scheduler goroutine, the coordinator and the stdin
\* goroutine share rate, paused and reader without a lock, so every read and
\* write of them is a step of its own where another goroutine may come
\* between: the coordinator reads rate for the reader it constructs
\* (DispatchRead) before it stores the reader (DispatchStart), and the
\* scheduler tests, sets the rate and sets the limit in three steps.
RunKeys == { " ", "p" }

RunLine(sh, sm, eh, em, r) ==
  [ days |-> << 1 >>, startHour |-> sh, startMinute |-> sm,
    endHour |-> eh, endMinute |-> em, rate |-> r ]

\* "mon 0800-0830: 3000" alone, and followed by "mon 0830-0900: 4000".
RunFiles ==
  { << RunLine(8, 0, 8, 30, 3000) >>,
    << RunLine(8, 0, 8, 30, 3000), RunLine(8, 30, 9, 0, 4000) >> }

\* The clock of RunSpec: Monday 07:45 to 08:45.
RunInstants == { t \in Instants : t <= 1440 + 525 }

RunInit ==
  /\ fileSize = 3 /\ partSize = 2
  /\ initialRate \in InitialRates
  /\ srvObject = FALSE /\ srvDup = "none" /\ srvUpload = 2 /\ srvParts = {}
  /\ srvNextId = 3
  /\ pc = "sched"
  /\ mode = "normal" /\ force = FALSE
  /\ uploadId = 2 /\ parts = <<>> /\ partNumber = 1 /\ offset = 0
  /\ interrupted = FALSE /\ paused = FALSE
  /\ waitingToUnpause = FALSE /\ waitingAfterError = FALSE
  /\ rate = initialRate /\ oldRate = 0 /\ reader = <<>>
  /\ pauseRate = NoRate
  /\ stdinInput = <<>> /\ signalChannel = <<>> /\ hpc = "idle"
  /\ sigTrap = TRUE
  /\ up = "none" /\ uploadPart = <<>> /\ uploadErr = FALSE
  /\ lastCall = NoCall
  /\ termRaw = TRUE /\ oldTerminalState = TRUE /\ deferRestore = TRUE
  /\ runs = 1 /\ attempts = 0 /\ fails = 0 /\ slept = 0
  /\ completeCalls = 0 /\ completeArg = <<>> /\ completeOk = FALSE
  /\ stdout = FALSE /\ warned = {} /\ headStatus = 404
  /\ apiCalls = { "HeadObject", "ListMultipartUploads",
                  "CreateMultipartUpload" }
  /\ exitCode = "none" /\ exitWhy = "none"
  /\ schedLines \in RunFiles
  /\ \E s \in readSchedule(schedLines) :
       /\ s.err = "none"
       /\ schedule = [ s EXCEPT !.defaultRate = initialRate ]
  /\ now \in RunInstants /\ called = NoCalled
  /\ spc = "off" /\ sblock = NoBlock /\ argRate = NoRate
  /\ NoMfa /\ NoFlow /\ NoArgs

\* Lines 691-697: with a schedule, the rate of the block schedule.next()
\* returns becomes the rate if that block is active, and the scheduler
\* goroutine is started.
SchedulerStart ==
  /\ pc = "sched" /\ Len(schedule.blocks) > 0
  /\ LET block == schedule.blocks[ScheduleNext(schedule.blocks, now)]
     IN  rate' = IF BlockActive(block, now) THEN block.rate ELSE rate
  /\ spc' = "next"
  /\ pc' = "loop"
  /\ UNCHANGED <<cfgVars, srvVars, flagVars, stVars, interrupted, paused,
                 waitingToUnpause, waitingAfterError, oldRate, reader,
                 pauseRate, chVars, upVars, termVars, obsVars, exitVars,
                 schedLines, schedule, now, called, sblock, argRate,
                 mfaVars, flowVars, argVars>>

\* Lines 753-757, the arguments of flowrate.NewReader: the coordinator reads
\* rate.
DispatchRead ==
  /\ pc = "loop" /\ offset < fileSize /\ ~paused
  /\ argRate' = rate
  /\ pc' = "newreader"
  /\ UNCHANGED <<cfgVars, srvVars, flagVars, stVars, ctlVars, chVars, upVars,
                 termVars, obsVars, exitVars, schedLines, schedule, now,
                 called, spc, sblock, mfaVars, flowVars, argVars>>

\* Lines 753-783: the reader constructed with the rate read is stored in
\* reader, and the upload goroutine is started.
DispatchStart ==
  /\ pc = "newreader"
  /\ LET size == min(partSize, fileSize - offset)
     IN  lastCall' = [ num |-> partNumber, off |-> offset, len |-> size ]
  /\ reader' = << argRate >>
  /\ argRate' = NoRate
  /\ up' = "inflight" /\ uploadPart' = <<>> /\ uploadErr' = FALSE
  /\ attempts' = attempts + 1
  /\ apiCalls' = apiCalls \cup { "UploadPart" }
  /\ pc' = "select"
  /\ UNCHANGED <<cfgVars, srvVars, flagVars, stVars, interrupted, paused,
                 waitingToUnpause, waitingAfterError, rate, oldRate, chVars,
                 termVars, exitVars, runs, fails, slept, completeCalls,
                 completeArg, completeOk, stdout, pauseRate, warned,
                 headStatus, schedLines, schedule, now, called, spc, sblock,
                 mfaVars, flowVars, argVars>>

\* What a step of the scheduler goroutine or of the clock leaves alone.
SchedulerKeeps ==
  UNCHANGED <<cfgVars, srvVars, pc, flagVars, stVars, interrupted, paused,
              waitingToUnpause, waitingAfterError, oldRate, pauseRate,
              chVars, upVars, termVars, obsVars, exitVars, schedLines,
              schedule, called, argRate, mfaVars, flowVars, argVars>>

\* Lines 699-700: "block := schedule.next(); start, end := block.next()".
SchedulerPick ==
  /\ spc = "next"
  /\ LET i == ScheduleNext(schedule.blocks, now)
         w == BlockNext(schedule.blocks[i], now)
     IN  sblock' = [ index |-> i, rate |-> schedule.blocks[i].rate,
                     start |-> w.start, end |-> w.end ]
  /\ spc' = "waitstart"
  /\ UNCHANGED <<now, rate, reader>>
  /\ SchedulerKeeps

\* Lines 702-704: "for time.Now().Before(start)" is over.
SchedulerStartReached ==
  /\ spc = "waitstart" /\ ~(now < sblock.start)
  /\ spc' = "set"
  /\ UNCHANGED <<now, rate, reader, sblock>>
  /\ SchedulerKeeps

\* Line 706: "if !paused && rate != block.rate".
SchedulerSetTest ==
  /\ spc = "set"
  /\ spc' = IF ~paused /\ rate # sblock.rate THEN "setrate" ELSE "waitend"
  /\ UNCHANGED <<now, rate, reader, sblock>>
  /\ SchedulerKeeps

\* Line 708: "rate = block.rate".
SchedulerSetRate ==
  /\ spc = "setrate"
  /\ rate' = sblock.rate
  /\ spc' = "setlimit"
  /\ UNCHANGED <<now, reader, sblock>>
  /\ SchedulerKeeps

\* Lines 709-711: "if reader != nil { reader.SetLimit(rate) }".
SchedulerSetLimit ==
  /\ spc = "setlimit"
  /\ reader' = IF reader # <<>> THEN << rate >> ELSE reader
  /\ spc' = "waitend"
  /\ UNCHANGED <<now, rate, sblock>>
  /\ SchedulerKeeps

\* Lines 715-717: "for time.Now().Before(end)" is over.
SchedulerEndReached ==
  /\ spc = "waitend" /\ ~(now < sblock.end)
  /\ spc' = "endtest"
  /\ UNCHANGED <<now, rate, reader, sblock>>
  /\ SchedulerKeeps

\* Lines 720-722: "if !paused { block = schedule.next(); if block.active()
\* && rate != schedule.defaultRate".
SchedulerEndTest ==
  /\ spc = "endtest"
  /\ LET block == schedule.blocks[ScheduleNext(schedule.blocks, now)]
     IN  spc' = IF /\ ~paused
                   /\ BlockActive(block, now)
                   /\ rate # schedule.defaultRate
                THEN "resetrate" ELSE "next"
  /\ UNCHANGED <<now, rate, reader, sblock>>
  /\ SchedulerKeeps

\* Line 724: "rate = schedule.defaultRate".
SchedulerResetRate ==
  /\ spc = "resetrate"
  /\ rate' = schedule.defaultRate
  /\ spc' = "resetlimit"
  /\ UNCHANGED <<now, reader, sblock>>
  /\ SchedulerKeeps

\* Lines 725-727: "if reader != nil { reader.SetLimit(rate) }".
SchedulerResetLimit ==
  /\ spc = "resetlimit"
  /\ reader' = IF reader # <<>> THEN << rate >> ELSE reader
  /\ spc' = "next"
  /\ UNCHANGED <<now, rate, sblock>>
  /\ SchedulerKeeps

\* Time passes while the process runs, up to the next instant.
RunTick ==
  /\ pc \notin { "idle", "exited", "args" }
  /\ \E t \in RunInstants :
       /\ t > now /\ \A u \in RunInstants : u > now => t <= u
       /\ now' = t
  /\ UNCHANGED <<rate, reader, spc, sblock>>
  /\ SchedulerKeeps

RunNext ==
  \/ SchedulerStart
  \/ LoopExit
  \/ PauseSet
  \/ PausePrompt
  \/ PauseRecv
  \/ DispatchRead
  \/ DispatchStart
  \/ ServerStorePart
  \/ UploadPartOk
  \/ SelectDone
  \/ SelectKey
  \/ PartAppend
  \/ \E r \in RunKeys : StdinKey(r)
  \/ SchedulerPick
  \/ SchedulerStartReached
  \/ SchedulerSetTest
  \/ SchedulerSetRate
  \/ SchedulerSetLimit
  \/ SchedulerEndReached
  \/ SchedulerEndTest
  \/ SchedulerResetRate
  \/ SchedulerResetLimit
  \/ RunTick

RunSpec == RunInit /\ [][RunNext]_vars

\* ------------------------------------------------ the MFA prompt (393-405)
\* MfaSpec: the part loop of a fresh upload with an assumed role whose
\* session may expire while a part is uploaded: the SDK then calls the
\* TokenProvider from the upload goroutine.  The stdin goroutine (lines
\* 627-653) reads a character and only then looks at promptingForMfa, a
\* variable it shares with the provider without a lock, so the read and the
\* test are steps of their own.  The coordinator's wait "for
\* promptingForMfa" (lines 907-909) only delays its next select and is left
\* out: the coordinator may take a key from the channel at any time.
MfaKeys == { "1", "DEL", "\n", " " }
CodeLength == 6
MaxTyped == 7

MfaInit ==
  /\ \E c \in Configs : fileSize = c[1] /\ partSize = c[2]
  /\ initialRate = 0
  /\ srvObject = FALSE /\ srvDup = "none" /\ srvUpload = 2 /\ srvParts = {}
  /\ srvNextId = 3
  /\ pc = "loop"
  /\ mode = "normal" /\ force = FALSE
  /\ uploadId = 2 /\ parts = <<>> /\ partNumber = 1 /\ offset = 0
  /\ interrupted = FALSE /\ paused = FALSE
  /\ waitingToUnpause = FALSE /\ waitingAfterError = FALSE
  /\ rate = initialRate /\ oldRate = 0 /\ reader = <<>>
  /\ pauseRate = NoRate
  /\ stdinInput = <<>> /\ signalChannel = <<>> /\ hpc = "idle"
  /\ sigTrap = TRUE
  /\ up = "none" /\ uploadPart = <<>> /\ uploadErr = FALSE
  /\ lastCall = NoCall
  /\ termRaw = TRUE /\ oldTerminalState = TRUE /\ deferRestore = TRUE
  /\ runs = 1 /\ attempts = 0 /\ fails = 0 /\ slept = 0
  /\ completeCalls = 0 /\ completeArg = <<>> /\ completeOk = FALSE
  /\ stdout = FALSE /\ warned = {} /\ headStatus = 404
  /\ apiCalls = { "HeadObject", "ListMultipartUploads",
                  "CreateMultipartUpload" }
  /\ exitCode = "none" /\ exitWhy = "none"
  /\ NoSchedule /\ NoMfa /\ NoFlow /\ NoArgs

\* What a step of the token provider or of the stdin goroutine leaves alone.
MfaKeeps ==
  UNCHANGED <<cfgVars, srvVars, pc, flagVars, stVars, ctlVars, signalChannel,
              hpc, sigTrap, upVars, termVars, obsVars, exitVars, schVars,
              flowVars, argVars>>

\* The TokenProvider is called for the request in flight (lines 393-395):
\* "promptingForMfa = true", then the prompt and fmt.Fscanln(mfaReader).
TokenPrompt ==
  /\ Running /\ up = "inflight" /\ tpc = "idle"
  /\ promptingForMfa' = TRUE
  /\ tpc' = "scan"
  /\ UNCHANGED <<stdinInput, mfaCode, mfaPipe, tcode, held>>
  /\ MfaKeeps

\* fmt.Fscanln(mfaReader, &code) returns with the line written to the pipe
\* (line 399); the Write of the stdin goroutine returns with it.
TokenScan ==
  /\ tpc = "scan" /\ mfaPipe # <<>>
  /\ tcode' = Head(mfaPipe)
  /\ mfaPipe' = <<>>
  /\ tpc' = "check"
  /\ UNCHANGED <<stdinInput, promptingForMfa, mfaCode, held>>
  /\ MfaKeeps

\* Lines 400-404: a code of six digits ends the prompt ("promptingForMfa =
\* false; return code, err"), anything else asks again.
TokenCheck ==
  /\ tpc = "check"
  /\ IF Len(tcode) = CodeLength /\ \A i \in 1..Len(tcode) : IsDigit(tcode[i])
     THEN promptingForMfa' = FALSE /\ tpc' = "idle"
     ELSE promptingForMfa' = promptingForMfa /\ tpc' = "scan"
  /\ tcode' = <<>>
  /\ UNCHANGED <<stdinInput, mfaCode, mfaPipe, held>>
  /\ MfaKeeps

\* The request in flight goes on only with credentials.
MfaServerStorePart == tpc = "idle" /\ ServerStorePart
MfaUploadPartOk == tpc = "idle" /\ UploadPartOk

\* "char, _, err := stdinReader.ReadRune()" returns (line 631); the goroutine
\* is not inside mfaWriter.Write.  held records the character and whether
\* the prompt was active when it was read.
StdinRead(c) ==
  /\ Running /\ held = <<>> /\ mfaPipe = <<>>
  /\ c = "1" => Len(mfaCode) < MaxTyped
  /\ held' = << [ char |-> c, prompting |-> promptingForMfa,
                  to |-> "test" ] >>
  /\ UNCHANGED <<stdinInput, promptingForMfa, mfaCode, mfaPipe, tpc, tcode>>
  /\ MfaKeeps

\* "if promptingForMfa { ... continue }" (lines 635-650): a digit is added
\* to mfaCode, backspace removes one, enter writes the code to the pipe;
\* with the flag false the goroutine goes on to send the character.
StdinTest ==
  /\ held # <<>> /\ held[1].to = "test"
  /\ LET char == held[1].char
     IN  IF promptingForMfa
         THEN /\ held' = <<>>
              /\ IF IsDigit(char)
                 THEN /\ mfaCode' = Append(mfaCode, char)
                      /\ mfaPipe' = mfaPipe
                 ELSE IF char = "DEL" /\ Len(mfaCode) > 0
                 THEN /\ mfaCode' = SubSeq(mfaCode, 1, Len(mfaCode) - 1)
                      /\ mfaPipe' = mfaPipe
                 ELSE IF char = "\n"
                 THEN /\ mfaPipe' = << mfaCode >>
                      /\ mfaCode' = <<>>
                 ELSE UNCHANGED <<mfaCode, mfaPipe>>
         ELSE /\ held' = << [ held[1] EXCEPT !.to = "send" ] >>
              /\ UNCHANGED <<mfaCode, mfaPipe>>
  /\ UNCHANGED <<stdinInput, promptingForMfa, tpc, tcode>>
  /\ MfaKeeps

\* "stdinInput <- char" (line 651): the channel has room for one.
StdinSend ==
  /\ held # <<>> /\ held[1].to = "send"
  /\ stdinInput = <<>>
  /\ stdinInput' = << held[1].char >>
  /\ held' = <<>>
  /\ UNCHANGED <<promptingForMfa, mfaCode, mfaPipe, tpc, tcode>>
  /\ MfaKeeps

MfaNext ==
  \/ LoopExit
  \/ PauseSet
  \/ PausePrompt
  \/ PauseRecv
  \/ Dispatch
  \/ MfaServerStorePart
  \/ MfaUploadPartOk
  \/ SelectDone
  \/ SelectKey
  \/ PartAppend
  \/ TokenPrompt
  \/ TokenScan
  \/ TokenCheck
  \/ \E c \in MfaKeys : StdinRead(c)
  \/ StdinTest
  \/ StdinSend

MfaSpec == MfaInit /\ [][MfaNext]_vars

\* ------------------------------------------------------------------ types
TypeOK ==
  /\ pc \in { "idle", "exited", "args", "head", "listuploads", "create",
              "listparts", "discovered", "notify", "loop", "pausechk",
              "pauserecv", "select", "postpart", "errset", "errsleep",
              "complete", "output", "sched", "newreader" }
  /\ exitCode \in { "none", "0", "1", "2", "SIGINT" }
  /\ up \in { "none", "inflight", "stored", "done" }
  /\ hpc \in { "idle", "send" }
  /\ Len(stdinInput) <= 1 /\ Len(signalChannel) <= 1
  /\ fails \in 0..MaxFails /\ runs \in 0..MaxRuns
  /\ warned \subseteq { "small", "inconsistent" }
  /\ headStatus \in { 0, 200, 404, 500 }
  /\ pauseRate \in Int

\* ================================================================== claims
\* Positions of the coordinator inside the part loop (lines 734-948).
InPartLoop ==
  pc \in { "loop", "pausechk", "pauserecv", "select", "postpart", "errset",
           "errsleep" }

PartNums(ps) == { ps[i].num : i \in 1..Len(ps) }
PartSet(ps) == { ps[i] : i \in 1..Len(ps) }

\* C1: in the part loop a record is appended to parts only when the
\* UploadPart call for that part number has returned without error (the
\* upload goroutine is done, uploadErr is nil, the store holds the part with
\* the appended ETag), one record at a time, and its part number is one more
\* than that of the record before it (1 for the first record).
C1_AppendAfterSuccess ==
  [][ (InPartLoop /\ parts' # parts) =>
        /\ up = "done" /\ ~uploadErr
        /\ lastCall.num = partNumber
        /\ Len(parts') = Len(parts) + 1
        /\ SubSeq(parts', 1, Len(parts)) = parts
        /\ parts'[Len(parts')].num = lastCall.num
        /\ parts'[Len(parts')] \in srvParts
        /\ parts'[Len(parts')].num =
             IF parts = <<>> THEN 1 ELSE parts[Len(parts)].num + 1
    ]_vars

\* C1 witness: a fresh run has appended parts 1 and 2 after their uploads.
C1_Witness ==
  /\ pc = "loop" /\ "ListParts" \notin apiCalls
  /\ Len(parts) = 2 /\ parts[2].num = 2

\* C2: every CompleteMultipartUpload call, in fresh and in resumed runs,
\* carries the parts list with parts[i].num = i for every i, whose sizes sum
\* to fileSize, and which holds exactly the parts the store has recorded for
\* the upload.
C2_CompleteCarriesAllParts ==
  [][ completeCalls' > completeCalls =>
        /\ completeArg' = parts
        /\ \A i \in 1..Len(parts) : parts[i].num = i
        /\ SumSizes(parts) = fileSize
        /\ PartSet(parts) = srvParts
    ]_vars

\* C2 witness: a resumed run that listed one part, uploaded the other and
\* called CompleteMultipartUpload.
C2_Witness ==
  /\ completeCalls = 1 /\ Len(completeArg) = 2
  /\ "ListParts" \in apiCalls /\ "UploadPart" \in apiCalls

\* C3: at every point of the part loop, in fresh and resumed runs, offset is
\* the sum of the sizes of the parts in the list and at most fileSize, the
\* next part number is len(parts) + 1 and is the number of no part in the
\* list; the request in flight carries that number.
C3_LoopInvariant ==
  (InPartLoop \/ pc = "complete") =>
    /\ offset = SumSizes(parts)
    /\ offset <= fileSize
    /\ partNumber = Len(parts) + 1
    /\ partNumber \notin PartNums(parts)
    /\ (pc \in { "select", "postpart" } =>
          /\ lastCall.num = partNumber
          /\ lastCall.off = offset
          /\ lastCall.num \notin PartNums(parts))

\* C3 witness: a resumed run at the loop head after it appended a part to
\* the listed one.
C3_Witness ==
  /\ pc = "loop" /\ Len(parts) = 2
  /\ "ListParts" \in apiCalls /\ "UploadPart" \in apiCalls


\* C4: when UploadPart returns an error and no interrupt is pending at the
\* check, the coordinator changes none of parts, offset and partNumber, goes
\* on to the wait (never to an exit; only a hard exit by the SIGINT handler
\* on signals that arrive later ends the run there), sleeps ErrorWaitSeconds
\* once per failure, and dispatches UploadPart again with the same part
\* number and the same file region; no count of failures stops it, so a
\* part that is appended after k failures was dispatched k + 1 times.
C4_RetrySamePart ==
  [][ /\ ( (pc = "postpart" /\ uploadErr) \/ pc \in { "errset", "errsleep" } )
         => UNCHANGED <<parts, offset, partNumber>>
      /\ (pc = "postpart" /\ uploadErr /\ ~interrupted /\ pc' # pc)
         => pc' = "errset"
      /\ (pc = "errset" /\ pc' # pc /\ exitWhy' # "hardexit")
         => (pc' = "errsleep" /\ waitingAfterError')
      /\ (pc = "errsleep" /\ pc' # pc /\ exitWhy' # "waitexit")
         => (pc' = "loop" /\ slept' = slept + ErrorWaitSeconds)
      /\ (pc = "loop" /\ pc' = "select")
         => /\ attempts' = fails + 1
            /\ slept = ErrorWaitSeconds * fails
            /\ (fails > 0 => lastCall' = lastCall)
      /\ (pc = "postpart" /\ parts' # parts)
         => attempts = fails + 1
    ]_vars

\* C4 witness: a part is about to be appended after MaxFails failures, each
\* followed by a wait, and MaxFails + 1 dispatches.
C4_Witness ==
  /\ pc = "postpart" /\ ~uploadErr /\ ~interrupted
  /\ fails = MaxFails /\ attempts = MaxFails + 1
  /\ slept = ErrorWaitSeconds * MaxFails

\* C5: a CompleteMultipartUpload call for an upload this program created
\* carries, however many runs were interrupted on the way, the parts list of
\* an uninterrupted run (same numbers, ETags and sizes); the parts list of a
\* resumed run starts as exactly the parts the store has recorded, and no
\* part number in the list is dispatched again.
C5_ResumeIdempotent ==
  [][ /\ (completeCalls' > completeCalls /\ uploadId > 1)
         => completeArg' = FreshParts(fileSize, partSize)
      /\ (pc = "listparts" /\ pc' = "discovered")
         => (PartSet(parts') = srvParts /\ Len(parts') = Cardinality(srvParts))
      /\ (pc = "loop" /\ pc' = "select")
         => lastCall'.num \notin PartNums(parts)
    ]_vars

\* C5 witness: the third run on an upload created by the first one listed a
\* part that the store had recorded although no run had appended it,
\* uploaded nothing and completed the object.
C5_Witness ==
  /\ completeOk /\ runs = 3 /\ uploadId > 1
  /\ "ListParts" \in apiCalls /\ "UploadPart" \notin apiCalls

\* C6: no step of the program other than a successful
\* CompleteMultipartUpload removes the multipart upload or a part of it from
\* the store: after every exit, failing run and retry the upload id and every
\* recorded part number are still there, and the program never calls
\* AbortMultipartUpload.
C6_NeverAborts ==
  [][ /\ (srvUpload # 0 /\ ~(completeOk' /\ ~completeOk))
         => /\ srvUpload' = srvUpload
            /\ \A p \in srvParts : \E q \in srvParts' : q.num = p.num
      /\ "AbortMultipartUpload" \notin apiCalls'
    ]_vars

\* C6 witness: a run ended on a failed CompleteMultipartUpload and the store
\* still has the upload with both parts.
C6_Witness ==
  /\ pc = "exited" /\ exitWhy = "completefail"
  /\ srvUpload # 0 /\ Cardinality(srvParts) = 2


\* C7: CompleteMultipartUpload is called at most once per run and only when
\* offset = fileSize; when the call fails it is not called again and the run
\* ends with exit code 1.
C7_CompleteOnceThenExit1 ==
  /\ completeCalls <= 1
  /\ (completeCalls = 1 => offset = fileSize)
  /\ ((pc = "exited" /\ exitWhy = "completefail")
        => (completeCalls = 1 /\ exitCode = "1"))

\* C8: outside --version and --dryrun a run ends with exit code 0 or with
\* something written on standard output only when CompleteMultipartUpload
\* succeeded in it; a run that ends by a pre-flight failure, a resume
\* inconsistency, an interrupt or a failed CompleteMultipartUpload ends with
\* exit code 1 and nothing written on standard output.
C8_ExitCodeAndStdout ==
  (pc = "exited" /\ mode = "normal") =>
    /\ ((exitCode = "0" \/ stdout) => completeOk)
    /\ (exitWhy \in { "preflight", "exists", "inconsistent", "interrupted",
                      "hardexit", "waitexit", "killed", "completefail" }
          => (exitCode = "1" /\ ~stdout))

\* C9: when the coordinator takes the result of the UploadPart in flight
\* (success or error) and interrupted is still set, the call has run to its
\* end, and the coordinator's next step ends the program with exit code 1:
\* nothing is appended, no UploadPart is dispatched, CompleteMultipartUpload
\* is not called.
C9_SoftInterrupt ==
  [][ (pc = "postpart" /\ interrupted)
        => /\ up = "done"
           /\ UNCHANGED <<parts, attempts, completeCalls>>
           /\ (pc' # pc => (pc' = "exited" /\ exitCode' = "1"))
    ]_vars

\* C10: a SIGINT that the process receives while interrupted is already set
\* ends the process at once with exit code 1 and with the terminal back in
\* the state it was found in.
C10_HardInterrupt ==
  [][ (Running /\ interrupted /\ pc' = "exited"
         /\ exitWhy' \in { "hardexit", "waitexit", "killed" })
        => (exitCode' = "1" /\ ~termRaw')
    ]_vars


\* The coordinator takes key r from stdinInput in the select of the part
\* loop (a step of SelectKey).
KeyHandled(r) ==
  /\ pc = "select" /\ pc' = "select"
  /\ stdinInput = << r >> /\ stdinInput' = <<>>

\* The SIGINT handler takes a signal from signalChannel (the step is not a
\* return of run()).
SignalHandled ==
  /\ Running /\ signalChannel # <<>> /\ signalChannel' = <<>>
  /\ exitWhy' \in { "none", "hardexit", "waitexit" }

\* C11: a space key handled during a part upload while interrupted is set
\* clears interrupted and changes nothing else (rate, the reader's limit,
\* paused, oldRate, the upload in flight and the upload state stay as they
\* are); with interrupted clear the finished part is appended and the loop
\* goes on, and the next SIGINT the handler takes sets interrupted again
\* instead of ending the process.
C11_SpaceCancelsExit ==
  [][ /\ (KeyHandled(" ") /\ interrupted)
         => /\ ~interrupted'
            /\ UNCHANGED <<rate, reader, paused, oldRate, pauseRate,
                           waitingToUnpause, waitingAfterError, stVars,
                           upVars, srvVars, signalChannel, hpc, sigTrap,
                           termVars, obsVars, exitVars>>
      /\ (pc = "postpart" /\ ~interrupted /\ ~uploadErr /\ pc' # pc)
         => (pc' = "loop" /\ Len(parts') = Len(parts) + 1)
      /\ (SignalHandled /\ ~interrupted /\ ~waitingAfterError)
         => (interrupted' /\ pc' = pc /\ exitCode' = "none")
    ]_vars

\* C11 witness: the space key is the next thing the coordinator takes while
\* a part is in flight, an exit is pending and the transfer is slowed down
\* by an earlier space key.
C11_Witness ==
  /\ pc = "select" /\ up = "inflight" /\ stdinInput = << " " >>
  /\ interrupted /\ paused /\ rate = 1000 /\ oldRate = 2000


\* A pause ends by a space key in this step: in the select of the part loop
\* or at the prompt of the pause loop.
PauseEndsBySpace ==
  /\ paused /\ ~paused' /\ pc' # "exited"
  /\ stdinInput = << " " >> /\ stdinInput' = <<>>

\* C12: when a pause entered by the space key or by 'p' is ended by a space
\* key, during the part upload or at the pause prompt, and no other key set
\* the rate in between, the rate afterwards (and the limit of the live
\* reader, when a part is in flight) is the rate in effect just before the
\* pause was entered.
C12_PauseRoundTrip ==
  [][ (PauseEndsBySpace /\ pauseRate # NoRate)
        => /\ rate' = pauseRate
           /\ (pc' = "select" => reader' = << pauseRate >>)
    ]_vars


PauseKeyReceived(r) ==
  /\ pc = "pauserecv" /\ pc' = "loop"
  /\ stdinInput = << r >> /\ stdinInput' = <<>>

\* C14: while paused at a part boundary no UploadPart is dispatched; paused
\* is cleared there only by a space key received at the prompt, after which
\* the next part can start; every other key received at the prompt is
\* consumed and leaves rate, paused and offset as they were.
C14_PausePrompt ==
  [][ /\ (up # "inflight" /\ up' = "inflight")
         => (~paused /\ pc = "loop")
      /\ (pc \in { "loop", "pausechk", "pauserecv" } /\ paused /\ ~paused'
          /\ pc' # "exited")
         => PauseKeyReceived(" ")
      /\ PauseKeyReceived(" ") => (~paused' /\ offset' < fileSize)
      /\ \A r \in KeyKeys \ { " " } :
           PauseKeyReceived(r)
           => /\ rate' = rate /\ paused' = paused /\ offset' = offset
              /\ paused'
    ]_vars

\* C14 witness: paused (with space, at rate 2000) the coordinator is at the
\* prompt after part 1, and 'a' waits to be received there.
C14_Witness ==
  /\ pc = "pauserecv" /\ paused /\ waitingToUnpause
  /\ stdinInput = << "a" >> /\ rate = 1000 /\ oldRate = 2000
  /\ partNumber = 2 /\ offset = partSize


\* C15: unless --force is given, a HeadObject response other than 404
\* (success, or another error) ends the run with exit code 1 and HeadObject
\* stays the only API operation of the run; a run without --force issues any
\* further operation only after a 404.
C15_ExistenceCheck ==
  /\ headStatus # 0 => ~force
  /\ headStatus \in { 200, 500 }
     => /\ pc = "exited" /\ exitCode = "1"
        /\ apiCalls = { "HeadObject" }
  /\ (~force /\ apiCalls \ { "HeadObject" } # {}) => headStatus = 404
  /\ (~force /\ pc \notin { "idle", "args", "head", "exited" })
     => headStatus = 404

\* C15 witness: HeadObject succeeded (the object exists) although an upload
\* for the key is in progress; the run is over.
C15_Witness ==
  /\ headStatus = 200 /\ srvObject /\ srvUpload # 0 /\ pc = "exited"


\* The uploads of the listing whose key is the destination key, by page and
\* position.
MatchingUploads ==
  { ij \in (1..Len(ListedUploads)) \X (1..2) :
      /\ ij[2] <= Len(ListedUploads[ij[1]])
      /\ ListedUploads[ij[1]][ij[2]].key = DestKey }

\* The run lists the in-progress uploads.
UploadsListed ==
  /\ pc = "listuploads"
  /\ "ListMultipartUploads" \in apiCalls' \ apiCalls

\* C16: when the listing holds more than one upload with the destination
\* key, on one page or on two, the run ends with exit code 1 and has issued
\* no ListParts, CreateMultipartUpload or UploadPart; an upload with another
\* key is never taken as the upload to resume and never counted: with no
\* upload for the destination key the run, if it goes on, creates one.
C16_DuplicateUploads ==
  [][ UploadsListed
      => /\ Cardinality(MatchingUploads) > 1
            => /\ pc' = "exited" /\ exitCode' = "1"
               /\ apiCalls' \cap { "ListParts", "CreateMultipartUpload",
                                   "UploadPart" } = {}
         /\ uploadId' \in { 0 } \cup
              { ListedUploads[ij[1]][ij[2]].id : ij \in MatchingUploads }
         /\ pc' = "listparts"
            => /\ Cardinality(MatchingUploads) = 1
               /\ uploadId' = srvUpload
         /\ pc' = "create" => MatchingUploads = {} /\ uploadId' = 0
    ]_vars

\* C16 witness: two uploads for the destination key on different pages;
\* the run ended with exit code 1 after the listing.
C16_Witness ==
  /\ srvDup = "nextpage" /\ Cardinality(MatchingUploads) = 2
  /\ pc = "exited" /\ exitCode = "1"
  /\ apiCalls = { "HeadObject", "ListMultipartUploads" }


\* The run lists the parts of the upload it resumes.
PartsListed ==
  /\ pc = "listparts"
  /\ "ListParts" \in apiCalls' \ apiCalls

\* C17: when the part numbers the store holds for the resumed upload are
\* not exactly 1..N, the run that lists them ends with exit code 1 and has
\* issued no UploadPart, CompleteMultipartUpload or AbortMultipartUpload.
C17_GapIsFatal ==
  [][ (PartsListed /\ PartNums(ListedParts(srvParts))
                        # 1..Cardinality(srvParts))
      => /\ pc' = "exited" /\ exitCode' = "1"
         /\ apiCalls' \cap { "UploadPart", "CompleteMultipartUpload",
                             "AbortMultipartUpload" } = {}
         /\ srvParts' = srvParts /\ srvUpload' = srvUpload
    ]_vars

\* C17 witness: the listing returned parts 1 and 3 and the run ended.
C17_Witness ==
  /\ pc = "exited" /\ exitWhy = "inconsistent" /\ exitCode = "1"
  /\ PartNums(parts) = { 1, 3 }
  /\ "ListParts" \in apiCalls


\* A listed part that does not end the file has another size than part 1.
SizeMismatch ==
  LET l == ListedParts(srvParts)
  IN  \E i \in 1..Len(l) :
        /\ SumSizes(SubSeq(l, 1, i)) # fileSize
        /\ l[i].size # l[1].size

\* C18 as stated: a resumed upload with a non-final part whose size differs
\* from the size of part 1 makes the run fatal: exit code 1 and no
\* UploadPart.
C18_MismatchIsFatal ==
  [][ (PartsListed /\ SizeMismatch)
      => /\ pc' = "exited" /\ exitCode' = "1"
         /\ "UploadPart" \notin apiCalls'
    ]_vars

\* C18, amended: a listed non-final part (of at least 5 MiB) whose size
\* differs from the size of part 1 is reported by a warning only; when
\* ListParts succeeds, the part numbers are 1..N and the listed sizes do not
\* exceed the file, the run goes on with the listed parts, the next part
\* number N+1 and the offset at the sum of the listed sizes.
C18_MismatchIsWarned ==
  [][ (PartsListed /\ SizeMismatch /\ exitWhy' # "preflight")
      => LET l == ListedParts(srvParts)
         IN  /\ "inconsistent" \in warned'
             /\ (PartNums(l) = 1..Len(l) /\ SumSizes(l) <= fileSize)
                => /\ pc' = "discovered" /\ exitCode' = "none"
                   /\ Len(parts') = Len(l)
                   /\ partNumber' = Len(l) + 1
                   /\ offset' = SumSizes(l)
    ]_vars

\* C18 witness: parts of 2 and 1 units were listed for a file of 4 units,
\* the warning was printed and part 3 is being uploaded from offset 3.
C18_Witness ==
  /\ "inconsistent" \in warned /\ "ListParts" \in apiCalls
  /\ fileSize = 4 /\ offset = 3
  /\ up = "inflight" /\ lastCall = [ num |-> 3, off |-> 3, len |-> 1 ]


\* C19: at most one UploadPart call is in flight: the coordinator dispatches
\* a call (for the next part or again for the same part) only when no call
\* is outstanding, the completion signal of the previous one having been
\* received; while a call is outstanding the coordinator waits in the
\* select statement.
C19_OneUploadInFlight ==
  [][ /\ attempts' = attempts + 1
         => /\ pc = "loop" /\ up = "none"
            /\ up' = "inflight" /\ pc' = "select"
      /\ up' \in { "inflight", "stored" } => pc' = "select"
      /\ (up \in { "inflight", "stored" } /\ pc' # "exited")
         => pc' = "select" /\ attempts' = attempts
    ]_vars

\* C19 witness: the second call for the same part is in flight, after the
\* first one failed and the wait is over.
C19_Witness ==
  /\ pc = "select" /\ up = "inflight" /\ attempts = 2 /\ fails = 1
  /\ lastCall.num = partNumber


\* 8 MiB doubled the least number of times needed for 10000 * ps >= fs
\* (for fs up to 10000 * 5 GiB, where none of the products wraps around).
RECURSIVE LeastDoubled(_, _)
LeastDoubled(ps, fs) ==
  IF Less64(Mul64(ps, 10000), fs) THEN LeastDoubled(Mul64(ps, 2), fs)
  ELSE ps

\* What C20 says the automatic part size is: above 10000 * 5 GiB the
\* doubled value exceeds 5 GiB, so the cap applies.
SelectedPartSize(fs) ==
  IF Less64(Mul64(Mul64(GiB, 5), 10000), fs) THEN Mul64(GiB, 5)
  ELSE LET ps == LeastDoubled(Mul64(MiB, 8), fs)
       IN  IF Less64(Mul64(GiB, 5), ps) THEN Mul64(GiB, 5) ELSE ps

\* C20: with no override the part size is 8 MiB doubled (every doubling
\* gives a larger size) the least number of times needed for
\* 10000 * partSize >= fileSize, then capped at 5 GiB; for every fileSize up
\* to 10000 * 5 GiB the result lies in [8 MiB, 5 GiB] and 10000 times the
\* result is at least fileSize.
C20_AutomaticPartSize ==
  [][ /\ (pc = "partsize" /\ pc' = "partsize")
         => (~Negative64(partSize') /\ Less64(partSize, partSize'))
      /\ (pc = "partsize" /\ pc' = "partsized")
         => /\ partSize' = SelectedPartSize(fileSize)
            /\ ~Less64(Mul64(Mul64(GiB, 5), 10000), fileSize)
               => /\ ~Less64(partSize', Mul64(MiB, 8))
                  /\ ~Less64(Mul64(GiB, 5), partSize')
                  /\ ~Less64(Mul64(partSize', 10000), fileSize)
    ]_vars


\* C21: in a fresh upload (the run created the multipart upload) the parts
\* uploaded so far are parts 1, 2, ... in order, part i being the file
\* region that starts at (i - 1) * partSize and has length partSize, or what
\* is left of the file for the last one: the regions tile the file from 0
\* without gap or overlap; when the loop is over there are
\* ceil(fileSize / partSize) parts and they are what the one
\* CompleteMultipartUpload call carries.
C21_FreshPartsTileFile ==
  ("CreateMultipartUpload" \in apiCalls
     /\ (InPartLoop \/ pc \in { "complete", "output" }))
  => /\ Len(parts) <= NumParts(fileSize, partSize)
     /\ \A i \in 1..Len(parts) :
          /\ parts[i].num = i
          /\ parts[i].etag = EtagOf((i - 1) * partSize, parts[i].size)
          /\ parts[i].size = IF i * partSize <= fileSize THEN partSize
                             ELSE fileSize - (i - 1) * partSize
     /\ pc \in { "complete", "output" }
        => Len(parts) = NumParts(fileSize, partSize)
     /\ completeCalls <= 1
     /\ completeCalls = 1 => completeArg = FreshParts(fileSize, partSize)

\* C21 witness: a file of 3 units in parts of 2 units, uploaded afresh as
\* parts 1 (2 units) and 2 (1 unit) and completed with one call.
C21_Witness ==
  /\ "CreateMultipartUpload" \in apiCalls /\ pc = "output"
  /\ fileSize = 3 /\ partSize = 2
  /\ Len(parts) = 2 /\ parts[2].size = 1 /\ completeCalls = 1


\* Start and end of a block as minutes of its day; the minute of the day and
\* of the week the clock shows.
BlockStart(b) == b.startHour * 60 + b.startMinute
BlockEnd(b) == b.endHour * 60 + b.endMinute
MinuteOfDay(t) == t % 1440
MinuteOfWeek(t) == t % (7 * 1440)

\* Two blocks of one weekday of which neither ends at or before the start of
\* the other.
Overlap(a, b) ==
  /\ a.weekday = b.weekday
  /\ ~(BlockEnd(a) <= BlockStart(b) \/ BlockEnd(b) <= BlockStart(a))

\* C22: in a schedule readSchedule has accepted, of any two blocks on the
\* same weekday one ends at or before the start of the other; a file in
\* which two blocks of one weekday overlap is rejected (the run ends with an
\* error), with "time ranges are not allowed to overlap" when every line of
\* it has a well-formed time range.
C22_NoOverlappingBlocks ==
  /\ schedule.err = "none" =>
       \A i, j \in 1..Len(schedule.blocks) :
         i # j => ~Overlap(schedule.blocks[i], schedule.blocks[j])
  /\ ( /\ schedule.err # "unread"
       /\ LET parsed == ParsedBlocks(schedLines)
          IN  \E i, j \in 1..Len(parsed) :
                i # j /\ Overlap(parsed[i], parsed[j]) )
     => /\ schedule.err \notin { "none", "nil" }
        /\ pc = "exited" /\ exitCode = "1"
        /\ (\A k \in 1..Len(schedLines) : ~BadTimeSpec(schedLines[k]))
           => schedule.err = "time ranges are not allowed to overlap"

\* C22 witness: an accepted schedule with three blocks on Monday, the first
\* and the third not next to each other in the sorted list.
C22_Witness ==
  /\ schedule.err = "none"
  /\ Len(schedule.blocks) = 3
  /\ \A i \in 1..3 : schedule.blocks[i].weekday = 1
  /\ BlockStart(schedule.blocks[1]) < BlockEnd(schedule.blocks[1])
  /\ BlockStart(schedule.blocks[2]) < BlockEnd(schedule.blocks[2])
  /\ BlockStart(schedule.blocks[3]) < BlockEnd(schedule.blocks[3])

\* C23: readSchedule rejects a block whose end time is not strictly greater
\* than its start time, so every block of a loaded schedule has start < end.
C23_EndAfterStart ==
  /\ schedule.err = "none" =>
       \A i \in 1..Len(schedule.blocks) :
         BlockStart(schedule.blocks[i]) < BlockEnd(schedule.blocks[i])
  /\ ( /\ schedule.err # "unread"
       /\ \E k \in 1..Len(schedLines) :
            schedLines[k].endHour * 60 + schedLines[k].endMinute
              <= schedLines[k].startHour * 60 + schedLines[k].startMinute )
     => schedule.err \notin { "none", "nil" }

\* The clock shows a time inside [start, end) of the block's occurrence.
InWindow(b, t) ==
  /\ Weekday(t) = b.weekday
  /\ BlockStart(b) <= MinuteOfDay(t) /\ MinuteOfDay(t) < BlockEnd(b)

\* C24: active() is true exactly when now lies inside [start, end) of the
\* block's occurrence: true at now = start, false at now = end.
C24_ActiveInWindow ==
  called.fn = "active"
    => called.result = InWindow(schedule.blocks[called.block], now)

\* The block is occurring as ScheduleBlock.next() sees it: it has started
\* and now is not after its end.
Occurring(b, t) ==
  /\ Weekday(t) = b.weekday
  /\ BlockStart(b) < MinuteOfDay(t) /\ MinuteOfDay(t) <= BlockEnd(b)

\* Minutes from t to the next start of the block at or after t.
UntilStart(b, t) ==
  (b.weekday * 1440 + BlockStart(b) + 7 * 1440 - MinuteOfWeek(t))
    % (7 * 1440)

Distance(a, b) == IF a < b THEN b - a ELSE a - b

\* C25 as stated: Schedule.next() returns the block whose next-occurrence
\* start is closest to now, the earlier block in sort order winning a tie.
C25_ClosestStart ==
  called.fn = "next" =>
    /\ called.block \in 1..Len(schedule.blocks)
    /\ \A j \in 1..Len(schedule.blocks) :
         LET mine  == Distance(BlockNext(schedule.blocks[called.block],
                                         now).start, now)
             other == Distance(BlockNext(schedule.blocks[j], now).start, now)
         IN  mine < other \/ (mine = other /\ called.block <= j)

\* C25, amended: Schedule.next() always returns a block of the schedule: the
\* block that is occurring (started, now not after its end) when there is
\* one, whatever start lies nearer; otherwise the block whose next start at
\* or after now is soonest, the earlier block in sort order winning a tie.
C25_OccurringElseSoonest ==
  called.fn = "next" =>
    LET bs == schedule.blocks
        i  == called.block
    IN  /\ i \in 1..Len(bs)
        /\ IF \E j \in 1..Len(bs) : Occurring(bs[j], now)
           THEN Occurring(bs[i], now)
           ELSE \A j \in 1..Len(bs) :
                  \/ UntilStart(bs[i], now) < UntilStart(bs[j], now)
                  \/ /\ UntilStart(bs[i], now) = UntilStart(bs[j], now)
                     /\ i <= j

\* C25 witness: next() has returned the occurring block although another
\* block starts sooner than the occurring one started.
C25_Witness ==
  /\ called.fn = "next"
  /\ Occurring(schedule.blocks[called.block], now)
  /\ \E j \in 1..Len(schedule.blocks) :
       /\ ~Occurring(schedule.blocks[j], now)
       /\ UntilStart(schedule.blocks[j], now)
            < now - BlockNext(schedule.blocks[called.block], now).start


\* The scheduler goroutine has dealt with the start of block i and waits
\* for its end; the coordinator waits in the select loop while a part is in
\* flight, and no key is waiting to be handled.
SchedulerSettledOn(i) ==
  /\ spc = "waitend" /\ sblock.index = i
  /\ pc = "select" /\ up = "inflight" /\ stdinInput = <<>>

\* C26: whenever a schedule block is active and the transfer is not paused,
\* the block's rate is the effective rate.  At startup: when run() looks at
\* the schedule while now is inside a block, the rate becomes that block's
\* rate (the first reader is then constructed with it).  During the upload:
\* once the scheduler has dealt with the start of a block and now is inside
\* the block, the shared rate and the limit of the reader in flight are the
\* block's rate, unless the transfer is paused.
C26_BlockRateInEffect ==
  /\ [][ (pc = "sched" /\ pc' = "loop") =>
           \A i \in 1..Len(schedule.blocks) :
             InWindow(schedule.blocks[i], now)
               => rate' = schedule.blocks[i].rate ]_vars
  /\ [](\A i \in 1..Len(schedule.blocks) :
          (SchedulerSettledOn(i) /\ InWindow(schedule.blocks[i], now)
             /\ ~paused)
            => /\ rate = schedule.blocks[i].rate
               /\ reader = << schedule.blocks[i].rate >>)

\* C27: when the scheduler finds the end of its block passed, the transfer
\* not paused and now inside no block, it resets the shared rate to the
\* default rate (unless it is the default rate already), and then the limit
\* of the live reader.
C27_ResetAtBlockEnd ==
  /\ [][ ( /\ spc = "endtest" /\ spc' # "endtest"
           /\ ~paused
           /\ \A i \in 1..Len(schedule.blocks) :
                ~InWindow(schedule.blocks[i], now) )
         => (spc' = "resetrate" \/ rate = schedule.defaultRate) ]_vars
  /\ [][ (spc = "resetrate" /\ spc' # "resetrate")
         => rate' = schedule.defaultRate ]_vars
  /\ [][ (spc = "resetlimit" /\ spc' # "resetlimit" /\ reader # <<>>)
         => reader' = << rate >> ]_vars

\* C28: under every interleaving of the scheduler, the key handler and the
\* part loop, once the pending rate changes have been applied (no key waits
\* to be handled, the scheduler is not between setting the rate and setting
\* the limit), the limit of the reader of the UploadPart in flight is the
\* shared rate.
C28_ReaderLimitIsRate ==
  ( /\ pc = "select" /\ up = "inflight" /\ stdinInput = <<>>
    /\ spc \notin { "setlimit", "resetlimit" } )
  => reader = << rate >>


\* C29: a character read from stdin while the MFA prompt is active is
\* captured by the prompt and never delivered as a command key: no character
\* that was read with promptingForMfa set is sent on stdinInput.
C29_PromptCapturesInput ==
  [][ (stdinInput' # stdinInput /\ stdinInput' # <<>>)
        => (held # <<>> /\ ~held[1].prompting) ]_vars


\* C30: once the terminal has been switched to raw mode, every step that
\* ends the process (completion, a failed Complete, the early exits after
\* an interrupt, the hard exit on SIGINT) leaves the terminal restored.
C30_TerminalRestoredOnExit ==
  [][ (pc # "exited" /\ pc' = "exited" /\ termRaw) => ~termRaw' ]_vars


\* C31: a SIGINT handled while the coordinator is at the pause prompt makes
\* the handler send a synthetic key; from then on the coordinator dispatches
\* no UploadPart (not while the handler still holds the key, whatever the
\* stdin goroutine has put on the channel), and the run leaves the pause loop
\* on "if interrupted" with exit code 1.
C31_SigintAtPausePrompt ==
  /\ [][ hpc = "send" => ~(up # "inflight" /\ up' = "inflight") ]_vars
  /\ [][ (pc = "pausechk" /\ interrupted /\ pc' = "exited")
           => exitCode' = "1" ]_vars

TicksPerSecond == 2
MaxTicks == 6
SourceSize == 4
FlowRates == { 0 - 1, 0, 1, 3 }
Wants == { 1, 3 }

\* "floor(rate * elapsed) - transferred": the bytes a read may deliver.
FlowPermitted_RoundsUp(limit, elapsed, transferred) ==
  ((limit * elapsed + TicksPerSecond - 1) \div TicksPerSecond) - transferred

FlowPermitted(limit, elapsed, transferred) ==
  ((limit * elapsed) \div TicksPerSecond) - transferred

\* Whether reads are throttled now: not during the first pass when it is
\* bypassed, and not with the limit 0 (unlimited).
FlowThrottled == ~flowBypass /\ flowRate > 0

FlowKeeps ==
  UNCHANGED <<cfgVars, srvVars, pc, flagVars, stVars, ctlVars, chVars,
              upVars, termVars, obsVars, exitVars, schVars, mfaVars,
              argVars>>

\* Time passes (a read with nothing permitted sleeps meanwhile).
FlowTick ==
  /\ flowElapsed < MaxTicks
  /\ flowElapsed' = flowElapsed + 1
  /\ UNCHANGED <<flowRate, flowTransferred, flowPos, flowBypass, flowScanned,
                 flowFixed>>
  /\ FlowKeeps

\* Read of up to want bytes: it delivers what the source has left, and when
\* throttled at most the permitted bytes; with nothing permitted it waits
\* until the next byte is due.  Reaching the end of the source completes
\* the scan of the source.
FlowRead(want) ==
  /\ flowPos < SourceSize
  /\ LET left == min(want, SourceSize - flowPos)
         n    == IF FlowThrottled
                 THEN min(left, FlowPermitted(flowRate, flowElapsed,
                                              flowTransferred))
                 ELSE left
     IN  /\ n > 0
         /\ flowTransferred' = flowTransferred + n
         /\ flowPos' = flowPos + n
         /\ flowScanned' = (flowScanned \/ flowPos + n = SourceSize)
  /\ UNCHANGED <<flowRate, flowElapsed, flowBypass, flowFixed>>
  /\ FlowKeeps

\* Seek to position p: the accounting of the pass starts again; a seek
\* after the source has been scanned ends the bypassed first pass.
FlowSeek(p) ==
  /\ flowPos' = p
  /\ flowElapsed' = 0 /\ flowTransferred' = 0
  /\ flowBypass' = (flowBypass /\ ~flowScanned)
  /\ flowFixed' = TRUE
  /\ UNCHANGED <<flowRate, flowScanned>>
  /\ FlowKeeps

\* set_limit(r): effective from the next read; a negative value is 0.
FlowSetLimit(r) ==
  /\ flowRate' = IF r < 0 THEN 0 ELSE r
  /\ flowFixed' = (flowFixed /\ flowRate' = flowRate)
  /\ UNCHANGED <<flowElapsed, flowTransferred, flowPos, flowBypass,
                 flowScanned>>
  /\ FlowKeeps

FlowInit ==
  /\ fileSize = SourceSize /\ partSize = SourceSize /\ initialRate = 0
  /\ srvObject = FALSE /\ srvDup = "none" /\ srvUpload = 0 /\ srvParts = {}
  /\ srvNextId = 2
  /\ pc = "select"
  /\ NoProcess
  /\ termRaw = FALSE
  /\ runs = 1 /\ attempts = 0 /\ fails = 0 /\ slept = 0
  /\ completeCalls = 0 /\ completeArg = <<>> /\ completeOk = FALSE
  /\ stdout = FALSE /\ apiCalls = {} /\ warned = {} /\ headStatus = 0
  /\ exitCode = "none" /\ exitWhy = "none"
  /\ NoSchedule /\ NoMfa /\ NoArgs
  /\ flowRate \in { r \in FlowRates : r >= 0 }
  /\ flowElapsed = 0 /\ flowTransferred = 0 /\ flowPos = 0
  /\ flowBypass \in BOOLEAN /\ flowScanned = FALSE /\ flowFixed = TRUE

FlowNext ==
  \/ FlowTick
  \/ \E want \in Wants : FlowRead(want)
  \/ \E p \in { 0, SourceSize } : FlowSeek(p)
  \/ \E r \in FlowRates : FlowSetLimit(r)

FlowSpec == FlowInit /\ [][FlowNext]_vars

\* C33: in a throttled pass whose limit r > 0 has not been changed since
\* the pass started, the bytes delivered since the pass started are never
\* more than floor(r * seconds elapsed since the pass started).
C33_DeliveredWithinRate ==
  (FlowThrottled /\ flowFixed)
    => flowTransferred <= (flowRate * flowElapsed) \div TicksPerSecond

\* A throttled pass at 3 bytes/s has delivered exactly what the rate
\* permits after one and a half seconds: the whole source.
C33_Witness ==
  /\ FlowThrottled /\ flowFixed /\ flowRate = 3
  /\ flowElapsed = 3 /\ flowTransferred = 4 /\ flowPos = SourceSize

\* ------------------------------------------------ runs without a SIGINT
\* LiveSpec: the program as in Spec when no SIGINT arrives, with the
\* scheduling the Go runtime gives its goroutines: the coordinator takes
\* its next step when it has one (in the select statement, the completion
\* signal once it is there), the upload goroutine's request comes to an
\* end, and the user presses the space key when the program waits for it.
\* UploadPart fails at most MaxFails times per part number.
Coordinator ==
  \/ Version \/ PreflightError \/ PreflightOk
  \/ HeadSkipped \/ HeadNotFound \/ HeadExists \/ HeadError
  \/ ListUploadsError \/ ListUploadsDuplicate \/ ListUploadsStorageClass
  \/ ListUploadsFound \/ ListUploadsNone
  \/ CreateSkipped \/ CreateMultipartUploadError \/ CreateMultipartUpload
  \/ ListPartsError \/ ListPartsGap \/ ListPartsTooLarge \/ ListPartsOk
  \/ DryrunReturn
  \/ \E ok \in BOOLEAN : ConfigureTerminal(ok)
  \/ SignalNotify
  \/ LoopExit \/ PauseSet \/ PausePrompt \/ PauseRecv
  \/ Dispatch
  \/ SelectDone
  \/ PartAppend \/ PartFailed
  \/ ErrWaitBegin \/ ErrWaitEnd
  \/ CompleteMultipartUpload \/ CompleteMultipartUploadError
  \/ OutputAndReturn \/ OutputMarshalError

UploadTask == ServerStorePart \/ UploadPartOk \/ UploadPartErr

LiveNext ==
  \/ StartRun
  \/ Coordinator
  \/ SelectKey
  \/ UploadTask
  \/ \E r \in Keys : StdinKey(r)

LiveSpec ==
  /\ Init /\ [][LiveNext]_vars
  /\ WF_vars(Coordinator)
  /\ WF_vars(UploadTask)
  /\ WF_vars(StdinKey(" "))

\* C34: when no SIGINT arrives, a run that has entered the part loop comes
\* to call CompleteMultipartUpload (every pause is ended by a space key,
\* every part is stored after finitely many failures), a run whose
\* CompleteMultipartUpload succeeded comes to its end, and it ends with exit
\* code 0 (unless the response could not be marshalled).
C34_RunCompletes ==
  /\ (pc = "loop") ~> (pc = "complete")
  /\ (pc = "output") ~> (pc = "exited")
  /\ [](pc = "exited" /\ completeOk /\ exitWhy # "marshal"
         => exitCode = "0")

\* This invocation has resumed an upload whose listed parts hold fileSize
\* bytes, and has not dispatched an UploadPart.
ResumedWhole ==
  /\ mode = "normal"
  /\ "ListParts" \in apiCalls /\ "UploadPart" \notin apiCalls
  /\ offset = fileSize

\* C35: a run that resumes an upload whose listed part sizes sum to fileSize
\* dispatches no UploadPart; from the part loop it goes straight to
\* CompleteMultipartUpload, which it calls once with the listed parts; when
\* the call succeeds the object exists and the upload is gone.  (Runs ended
\* by a SIGINT are left aside.)
C35_ResumeWholeCompletes ==
  /\ [][ (Running /\ ResumedWhole) =>
           /\ "UploadPart" \notin apiCalls' /\ up' = "none"
           /\ parts' = parts /\ offset' = offset
           /\ completeCalls' <= 1
           /\ (pc = "loop" /\ pc' \notin { "loop", "exited" })
                => pc' = "complete"
           /\ completeCalls' # completeCalls
                => (pc = "complete" /\ completeArg' = parts
                    /\ PartSet(parts) = srvParts)
       ]_vars
  /\ [][ (Running /\ ResumedWhole /\ pc' = "exited"
            /\ exitWhy' \notin { "killed", "hardexit", "waitexit" })
           => /\ completeCalls' = 1
              /\ exitWhy' \in { "success", "completefail", "marshal" }
              /\ (exitWhy' = "success" => srvObject' /\ srvUpload' = 0)
       ]_vars

\* A second invocation found the parts of the whole file listed, called
\* CompleteMultipartUpload with them and the object exists.
C35_Witness ==
  /\ pc = "exited" /\ runs >= 2 /\ ResumedWhole
  /\ exitWhy = "success" /\ completeCalls = 1 /\ completeArg = parts
  /\ srvObject

\* The scheduler goroutine takes a step that assigns the shared rate or
\* calls reader.SetLimit (lines 708-711, 724-727).
SchedulerWrites ==
  /\ spc \in { "setrate", "setlimit", "resetrate", "resetlimit" }
  /\ spc' # spc

\* C36: while paused is set the scheduler goroutine changes neither the
\* shared rate nor the limit of the reader; after a pause by the space key
\* the rate stays at the pause rate until a key is handled.
C36_SchedulerHoldsWhilePaused ==
  /\ [][ (paused /\ SchedulerWrites)
           => (rate' = rate /\ reader' = reader) ]_vars
  /\ [][ (paused /\ pauseRate # NoRate /\ rate = 1000 /\ rate' # rate)
           => KeyHandled(" ") \/ KeyHandled("p") ]_vars

\* Another block of the schedule starts, on the same weekday, at the minute
\* block i ends.
Followed(i) ==
  \E j \in 1..Len(schedule.blocks) :
    /\ schedule.blocks[j].weekday = schedule.blocks[i].weekday
    /\ BlockStart(schedule.blocks[j]) = BlockEnd(schedule.blocks[i])

\* C37: at the end of a block that is followed at once by another block of
\* the same weekday the scheduler does not apply the default rate but goes
\* on to the next block; it applies the default rate at the end of a block
\* only when no block follows at once.
C37_NoDefaultBetweenAdjacentBlocks ==
  /\ [][ (spc = "endtest" /\ spc' # spc /\ Followed(sblock.index))
           => spc' = "next" ]_vars
  /\ [][ (spc = "resetrate" /\ spc' # spc) => ~Followed(sblock.index) ]_vars

\* --------------------------------------------- the --part-size argument
\* PartArgSpec: one invocation with --part-size on an empty bucket, from the
\* parse of the argument (lines 276-283) to the end of the run.  Sizes are
\* plain integers here; the file has 3 bytes.  An UploadPart of any length
\* is stored.  At most MaxParts parts are dispatched.
kiB == 1024
MaxParts == 4

\* The decimal value of a sequence of digits.
RECURSIVE Decimal(_)
Decimal(s) ==
  IF s = <<>> THEN 0
  ELSE Decimal(SubSeq(s, 1, Len(s) - 1)) * 10 + DigitOf(s[Len(s)])

\* strconv.ParseFloat(s, 64) on a decimal with an optional sign and at most
\* one digit after the point; the value is given in tenths.
ParseFloat(s) ==
  LET signed == s # <<>> /\ s[1] \in { "-", "+" }
      u      == IF signed THEN Tail(s) ELSE s
      dots   == { i \in 1..Len(u) : u[i] = "." }
      d      == IF dots = {} THEN Len(u) + 1 ELSE CHOOSE i \in dots : TRUE
      whole  == SubSeq(u, 1, d - 1)
      frac   == SubSeq(u, d + 1, Len(u))
      ok     == /\ \A i \in 1..Len(u) : IsDigit(u[i]) \/ u[i] = "."
                /\ Cardinality(dots) <= 1
                /\ Len(whole) + Len(frac) > 0
                /\ Len(frac) <= 1
  IN  IF ~ok THEN [ err |-> TRUE, neg |-> FALSE, tenths |-> 0 ]
      ELSE [ err    |-> FALSE,
             neg    |-> signed /\ s[1] = "-",
             tenths |-> Decimal(whole) * 10 + Decimal(frac) ]

\* parseFilesize (part_000:100-119): the factor of the suffix, ParseFloat of
\* the rest, "int64(math.Round(f * float64(factor)))" (halves away from 0).
parseFilesize(s) ==
  LET suffix == s[Len(s)]
      factor == IF suffix \in { "k", "K" } THEN kiB
                ELSE IF suffix \in { "m", "M" } THEN kiB * kiB
                ELSE IF suffix \in { "g", "G" } THEN kiB * kiB * kiB
                ELSE 1
      f      == ParseFloat(IF factor # 1 THEN SubSeq(s, 1, Len(s) - 1) ELSE s)
      m      == (f.tenths * factor + 5) \div 10
  IN  IF f.err THEN [ err |-> TRUE, value |-> 0 ]
      ELSE [ err |-> FALSE, value |-> IF f.neg THEN 0 - m ELSE m ]

\* --part-size 0, 0.4, 0.5, 1.5, 2, -1, 1k, k, 2x
PartSizeArgs ==
  { << "0" >>, << "0", ".", "4" >>, << "0", ".", "5" >>,
    << "1", ".", "5" >>, << "2" >>, << "-", "1" >>, << "1", "k" >>,
    << "k" >>, << "2", "x" >> }

\* Lines 276-301: with --part-size the part size is what parseFilesize
\* returns, whatever it is (a size outside 5 MiB..5 GiB is only warned
\* about); a value that does not parse ends the run with status 1.
ParsePartSize ==
  /\ pc = "args" /\ partSizeRaw # <<>>
  /\ LET r == parseFilesize(partSizeRaw)
     IN  IF r.err
         THEN /\ Return("1", "preflight")
              /\ UNCHANGED partSize
         ELSE /\ partSize' = r.value
              /\ pc' = "head"
              /\ UNCHANGED <<flagVars, ctlVars, chVars, upVars, termVars,
                             exitVars>>
  /\ UNCHANGED <<fileSize, initialRate, srvVars, stVars, obsVars>>
  /\ UNCHANGED extVars

PartArgInit ==
  /\ fileSize = 3 /\ partSize = 8 * kiB * kiB /\ initialRate = 0
  /\ srvObject = FALSE /\ srvDup = "none" /\ srvUpload = 0 /\ srvParts = {}
  /\ srvNextId = 2
  /\ pc = "args"
  /\ NoProcess
  /\ termRaw = FALSE
  /\ runs = 1 /\ attempts = 0 /\ fails = 0 /\ slept = 0
  /\ completeCalls = 0 /\ completeArg = <<>> /\ completeOk = FALSE
  /\ stdout = FALSE /\ apiCalls = {} /\ warned = {} /\ headStatus = 0
  /\ exitCode = "none" /\ exitWhy = "none"
  /\ NoSchedule /\ NoMfa /\ NoFlow
  /\ partSizeRaw \in PartSizeArgs

PartArgNext ==
  \/ ParsePartSize
  \/ HeadNotFound
  \/ ListUploadsNone
  \/ CreateMultipartUpload
  \/ \E ok \in BOOLEAN : ConfigureTerminal(ok)
  \/ SignalNotify
  \/ LoopExit
  \/ (partNumber <= MaxParts /\ Dispatch)
  \/ ServerStorePart
  \/ UploadPartOk
  \/ SelectDone
  \/ PartAppend
  \/ CompleteMultipartUpload
  \/ OutputAndReturn

PartArgSpec == PartArgInit /\ [][PartArgNext]_vars

\* C38: every part appended after a successful UploadPart moves offset
\* forward by at least one byte, and the number of parts uploaded in the
\* part loop is at most ceil(fileSize / partSize) (the upload is a fresh
\* one: the initial offset is 0).
C38_PartLoopProgress ==
  /\ [][ (pc = "postpart" /\ Len(parts') > Len(parts))
           => offset' > offset ]_vars
  /\ []((InPartLoop /\ partSize > 0)
          => Len(parts) <= (fileSize + partSize - 1) \div partSize)

\* ------------------------------ the coordinator's wait for the MFA prompt
\* PromptSpec: MfaSpec with the event loop of the part loop taken apart
\* (lines 787-911): one turn of "for doneCh != nil" is the select statement
\* (a key, the timeout after a second, or the completion signal), then the
\* wait "for promptingForMfa { time.Sleep(time.Second) }" (lines 907-909),
\* then the status line.  While it waits the coordinator takes nothing from
\* stdinInput.

\* select, "case <-time.After(time.Second)" (line 791).
SelectTimeout ==
  /\ pc = "select"
  /\ pc' = "mfawait"
  /\ UNCHANGED <<cfgVars, srvVars, flagVars, stVars, ctlVars, chVars, upVars,
                 termVars, obsVars, exitVars>>
  /\ UNCHANGED extVars

\* select, "case r := <-stdinInput" (lines 792-905), then on to line 907.
SelectKeyTaken ==
  /\ pc = "select" /\ stdinInput # <<>>
  /\ stdinInput' = <<>>
  /\ LET new == HandleKey(Head(stdinInput))
     IN  /\ interrupted' = new.interrupted /\ paused' = new.paused
         /\ rate' = new.rate /\ oldRate' = new.oldRate
         /\ reader' = new.reader
  /\ pauseRate' = PauseRateAfter(Head(stdinInput))
  /\ pc' = "mfawait"
  /\ UNCHANGED <<cfgVars, srvVars, flagVars, stVars, waitingToUnpause,
                 waitingAfterError, signalChannel, hpc, sigTrap, upVars,
                 termVars, obsVars, exitVars>>
  /\ UNCHANGED extVars

\* select, "case <-doneCh: doneCh = nil" (lines 789-790): the last turn.
SelectDoneTaken ==
  /\ pc = "select" /\ up = "done"
  /\ pc' = "mfalast"
  /\ UNCHANGED <<cfgVars, srvVars, flagVars, stVars, ctlVars, chVars, upVars,
                 termVars, obsVars, exitVars>>
  /\ UNCHANGED extVars

\* Lines 907-911: "for promptingForMfa" is over (or was never entered); the
\* status line is printed and the loop goes on, or ends after the last turn.
MfaWaitOver ==
  /\ pc \in { "mfawait", "mfalast" } /\ ~promptingForMfa
  /\ pc' = IF pc = "mfawait" THEN "select" ELSE "postpart"
  /\ UNCHANGED <<cfgVars, srvVars, flagVars, stVars, ctlVars, chVars, upVars,
                 termVars, obsVars, exitVars>>
  /\ UNCHANGED extVars

PromptNext ==
  \/ LoopExit
  \/ PauseSet
  \/ PausePrompt
  \/ PauseRecv
  \/ Dispatch
  \/ MfaServerStorePart
  \/ MfaUploadPartOk
  \/ SelectTimeout
  \/ SelectKeyTaken
  \/ SelectDoneTaken
  \/ MfaWaitOver
  \/ PartAppend
  \/ TokenPrompt
  \/ TokenScan
  \/ TokenCheck
  \/ \E c \in MfaKeys : StdinRead(c)
  \/ StdinTest
  \/ StdinSend

PromptSpec == MfaInit /\ [][PromptNext]_vars

\* The stdin goroutine is inside "stdinInput <- char" with the channel full,
\* the coordinator waits for the prompt to end, and the token provider waits
\* for a line on the pipe: none of the three can take a step.
PromptDeadlock ==
  /\ held # <<>> /\ held[1].to = "send" /\ stdinInput # <<>>
  /\ pc \in { "mfawait", "mfalast" } /\ promptingForMfa
  /\ tpc = "scan" /\ mfaPipe = <<>>

\* C39: an MFA prompt that starts while a part is uploading never ends in a
\* deadlock: the stdin goroutine is never blocked on the full channel while
\* the coordinator waits for the prompt to end and the token provider waits
\* for the code.
C39_NoPromptDeadlock == ~PromptDeadlock

\* C40: when terminal.ConfigureTerminal has failed (the saved state is nil)
\* the run goes on, and every step that ends it (a return of run() or the
\* handler's os.Exit) ends the process with the exit code of the outcome: 0
\* after a successful upload, 1 otherwise; it is never the status of a fault
\* in the attempt to restore the terminal.  (The end by a SIGINT taken with
\* its default disposition is left aside.)
C40_NoFaultWithoutTerminalState ==
  [][ (Running /\ deferRestore /\ ~oldTerminalState /\ pc' = "exited"
         /\ exitWhy' # "killed")
        => exitCode' = (IF exitWhy' = "success" THEN "0" ELSE "1") ]_vars

====
